-------------------------- MODULE Listeners_proofs --------------------------
(***************************************************************************)
(* Proofs about Listeners, for all jobs, pages and bounds.                 *)
(***************************************************************************)
EXTENDS Listeners, TLAPS

Entries  == [status : States \cup {"none"}, progress : BOOLEAN]
PageType == [Pages -> [Jobs -> Entries]]

\* Two pages that differ by jobs that were added.
More(pages) ==
  \A p \in Pages, j \in Jobs : page[p][j] # Absent => pages[p][j] # Absent

-----------------------------------------------------------------------------
(* What a page does with a message.                                        *)

LEMMA AddKeeps ==
  ASSUME page \in PageType, NEW p \in Pages, NEW j \in Jobs, NEW s \in States, JobAdd(p, j, s)
  PROVE  page' \in PageType /\ More(page') /\ page'[p][j] # Absent
<1> DEFINE e == [status |-> s, progress |-> FALSE]
<1>1. e \in Entries /\ e # Absent
  BY DEF Entries, Absent, States
<1>2. page' = [page EXCEPT ![p] = [page[p] EXCEPT ![j] = e]]
  BY DEF JobAdd
<1> HIDE DEF e
<1>3. page' \in PageType
  BY <1>1, <1>2 DEF PageType
<1>4. \A q \in Pages, k \in Jobs : page'[q][k] = IF q = p /\ k = j THEN e ELSE page[q][k]
  BY <1>2 DEF PageType
<1>5. QED
  BY <1>1, <1>3, <1>4 DEF More

LEMMA UpdateKeeps ==
  ASSUME page \in PageType, NEW p \in Pages, NEW j \in Jobs, JobUpdate(p, j)
  PROVE  page' \in PageType /\ More(page')
<1>1. CASE page[p][j] = Absent
  BY <1>1 DEF JobUpdate, More
<1>2. CASE page[p][j] # Absent
  <2> DEFINE e == [page[p][j] EXCEPT !.progress = TRUE]
  <2>1. page[p][j] \in Entries
    BY DEF PageType
  <2>2. e \in Entries /\ e # Absent
    BY <2>1 DEF Entries, Absent
  <2>3. page' = [page EXCEPT ![p] = [page[p] EXCEPT ![j] = e]]
    BY <1>2 DEF JobUpdate
  <2> HIDE DEF e
  <2>4. page' \in PageType
    BY <2>2, <2>3 DEF PageType
  <2>5. \A q \in Pages, k \in Jobs : page'[q][k] = IF q = p /\ k = j THEN e ELSE page[q][k]
    BY <2>3 DEF PageType
  <2>6. QED
    BY <2>2, <2>4, <2>5 DEF More
<1>3. QED
  BY <1>1, <1>2

\* A message that is under way adds its job, or leaves the jobs as they are.
LEMMA ReceiveKeeps ==
  ASSUME page \in PageType, NEW p \in Pages, NEW m \in Walks, m # Idle, Receive(p, m)
  PROVE  /\ page' \in PageType /\ More(page')
         /\ m.type = "JOB_ADD" => page'[p][m.job] # Absent
<1>1. CASE m \in [type : {"JOB_ADD"}, job : Jobs, status : States, left : SUBSET Pages]
  <2>1. m.type = "JOB_ADD" /\ m.job \in Jobs /\ m.status \in States
    BY <1>1
  <2>2. JobAdd(p, m.job, m.status)
    BY <2>1 DEF Receive
  <2>3. QED
    BY <2>1, <2>2, AddKeeps
<1>2. CASE m \in [type : {"status", "progress"}, job : Jobs, left : SUBSET Pages]
  <2>1. m.type \in {"status", "progress"} /\ m.job \in Jobs
    BY <1>2
  <2>2. CASE m.type = "status"
    BY <2>2 DEF Receive, StatusUpdate, More
  <2>3. CASE m.type = "progress"
    BY <2>1, <2>3, UpdateKeeps DEF Receive
  <2>4. QED
    BY <2>1, <2>2, <2>3
<1>3. QED
  BY <1>1, <1>2 DEF Walks

-----------------------------------------------------------------------------
(* The walks.                                                              *)

\* A message that has fewer listeners left is still the same message.
LEMMA WalkLeft ==
  ASSUME NEW m \in Walks, m # Idle, NEW L \in SUBSET Pages
  PROVE  LET n == [m EXCEPT !.left = L]
         IN  n \in Walks /\ n # Idle /\ n.type = m.type /\ n.job = m.job /\ n.left = L
<1>1. CASE m \in [type : {"JOB_ADD"}, job : Jobs, status : States, left : SUBSET Pages]
  BY <1>1 DEF Walks, Idle
<1>2. CASE m \in [type : {"status", "progress"}, job : Jobs, left : SUBSET Pages]
  BY <1>2 DEF Walks, Idle
<1>3. QED
  BY <1>1, <1>2 DEF Walks

LEMMA WalkTypes ==
  ASSUME NEW m \in Walks, m # Idle
  PROVE  m.type \in {"JOB_ADD", "status", "progress"} /\ m.job \in Jobs /\ m.left \in SUBSET Pages
  BY DEF Walks

\* A new message.
LEMMA NewWalk ==
  ASSUME NEW j \in Jobs, NEW s \in States, NEW L \in SUBSET Pages
  PROVE  /\ [type |-> "JOB_ADD", job |-> j, status |-> s, left |-> L] \in Walks
         /\ [type |-> "status", job |-> j, left |-> L] \in Walks
         /\ [type |-> "progress", job |-> j, left |-> L] \in Walks
  BY DEF Walks

\* The senders go on with their walks, or are torn.
LEMMA ChangeKeeps ==
  ASSUME KeptInv, NEW L \in SUBSET Pages, Change(L)
  PROVE  /\ walk' \in [Senders -> Walks] /\ listeners' = L /\ torn' \in BOOLEAN
         /\ \A t \in Senders : /\ Busy(t)' <=> Busy(t)
                               /\ Busy(t) => /\ walk'[t].type = walk[t].type
                                             /\ walk'[t].job = walk[t].job
         /\ ~torn' => ~torn /\ walk' = walk
<1>0. walk \in [Senders -> Walks] /\ listeners \subseteq Pages
  BY DEF KeptInv
<1>1. PICK left \in [{t \in Senders : Busy(t)} -> SUBSET (L \cup listeners)] :
        walk' = [t \in Senders |-> IF Busy(t) THEN [walk[t] EXCEPT !.left = left[t]] ELSE Idle]
  BY DEF Change
<1>2. \A t \in Senders : Busy(t) => left[t] \in SUBSET Pages
  BY <1>0, <1>1
<1>3. \A t \in Senders : ~Busy(t) => walk'[t] = Idle
  BY <1>1
<1>4. ASSUME NEW t \in Senders, Busy(t)
      PROVE  walk'[t] \in Walks /\ walk'[t] # Idle
             /\ walk'[t].type = walk[t].type /\ walk'[t].job = walk[t].job
  <2>1. walk[t] \in Walks /\ walk[t] # Idle /\ left[t] \in SUBSET Pages
    BY <1>0, <1>2, <1>4 DEF Busy
  <2>2. walk'[t] = [walk[t] EXCEPT !.left = left[t]]
    BY <1>1, <1>4
  <2>3. QED
    BY <2>1, <2>2, WalkLeft
<1>5. Idle \in Walks
  BY DEF Walks
<1>6. walk' \in [Senders -> Walks]
  <2>1. walk' = [t \in Senders |-> walk'[t]]
    BY <1>1
  <2>2. \A t \in Senders : walk'[t] \in Walks
    BY <1>3, <1>4, <1>5
  <2>3. QED
    BY <2>1, <2>2
<1>7. \A t \in Senders : Busy(t)' <=> Busy(t)
  BY <1>3, <1>4 DEF Busy
<1>8. torn' \in BOOLEAN /\ listeners' = L
  BY DEF Change, KeptInv
<1>9. ASSUME ~torn' PROVE ~torn /\ walk' = walk
  <2>1. ~torn /\ \A t \in Senders : ~Busy(t)
    BY <1>9 DEF Change
  <2>2. \A t \in Senders : walk[t] = Idle /\ walk'[t] = Idle
    BY <1>3, <2>1 DEF Busy
  <2>3. QED
    BY <1>0, <1>6, <2>1, <2>2
<1>10. QED
  BY <1>4, <1>6, <1>7, <1>8, <1>9

\* A message arrives at one page; or a socket throws, and the message is lost
\* by a server thread or the program ends.
LEMMA DeliverKeeps ==
  ASSUME KeptInv, NEW t \in Senders, NEW p \in Pages, Deliver(t, p)
  PROVE  /\ page' \in PageType /\ More(page') /\ walk' \in [Senders -> Walks]
         /\ Busy(t) /\ p \in walk[t].left
         /\ \A u \in Senders \ {t} : walk'[u] = walk[u]
         /\ \/ walk' = walk /\ handler[p] # "open"
            \/ walk'[t] = Idle /\ t = Report
            \/ /\ Busy(t)' /\ walk'[t].type = walk[t].type /\ walk'[t].job = walk[t].job
               /\ walk'[t].left = walk[t].left \ {p}
               /\ handler[p] = "open" /\ walk[t].type = "JOB_ADD" => page'[p][walk[t].job] # Absent
<1>0. /\ walk \in [Senders -> Walks] /\ page \in PageType /\ Busy(t) /\ p \in walk[t].left
      /\ walk[t] \in Walks /\ walk[t] # Idle
  BY DEF KeptInv, PageType, Entries, Deliver, Busy
<1>1. CASE /\ walk' = [walk EXCEPT ![t].left = @ \ {p}]
           /\ IF handler[p] = "open" THEN Receive(p, walk[t]) ELSE UNCHANGED page
  <2>1. walk[t].left \ {p} \in SUBSET Pages
    BY <1>0, WalkTypes
  <2> DEFINE n == [walk[t] EXCEPT !.left = walk[t].left \ {p}]
  <2>2. /\ n \in Walks /\ n # Idle /\ n.type = walk[t].type /\ n.job = walk[t].job
        /\ n.left = walk[t].left \ {p}
    BY <1>0, <2>1, WalkLeft
  <2>3. walk' = [walk EXCEPT ![t] = n]
    BY <1>1
  <2> HIDE DEF n
  <2>4. walk' \in [Senders -> Walks] /\ walk'[t] = n /\ \A u \in Senders \ {t} : walk'[u] = walk[u]
    BY <1>0, <2>2, <2>3
  <2>5. /\ page' \in PageType /\ More(page')
        /\ handler[p] = "open" /\ walk[t].type = "JOB_ADD" => page'[p][walk[t].job] # Absent
    BY <1>0, <1>1, ReceiveKeeps DEF More
  <2>6. QED
    BY <1>0, <2>2, <2>4, <2>5 DEF Busy
<1>2. CASE /\ handler[p] \in {"closed", "gone"} /\ UNCHANGED page
           /\ \/ t = Report /\ walk' = [walk EXCEPT ![t] = Idle]
              \/ UNCHANGED walk
  <2>1. Idle \in Walks
    BY DEF Walks
  <2>2. QED
    BY <1>0, <1>2, <2>1 DEF More
<1>3. QED
  BY <1>1, <1>2 DEF Deliver

-----------------------------------------------------------------------------
(* Types, and which of them a step changes.                                *)

LEMMA Names ==
  /\ \A j \in Jobs : j # Main /\ j # Report /\ j # Nobody /\ j \notin Pages
  /\ \A p \in Pages : p # Nobody
  /\ Main # Report /\ Main \in Senders /\ Report \in Senders /\ Jobs \subseteq Senders
  BY ListenersAssumption DEF Senders

\* A sender starts a walk, or ends one.
LEMMA WalkSet ==
  ASSUME KeptInv, NEW t \in Senders, NEW m \in Walks, walk' = [walk EXCEPT ![t] = m]
  PROVE  walk' \in [Senders -> Walks] /\ walk'[t] = m /\ \A u \in Senders \ {t} : walk'[u] = walk[u]
  BY DEF KeptInv

LEMMA KeptStep ==
  ASSUME KeptInv, AnnounceInv, Next
  PROVE  KeptInv'
<1>0. /\ Idle \in Walks /\ \A j \in Jobs : state[j] \in States
      /\ "waiting" \in States /\ "running" \in States /\ "done" \in States
  BY DEF Walks, KeptInv, States
<1>00. page \in PageType /\ \A pages \in PageType : pages \in [Pages -> [Jobs -> [status : States \cup {"none"}, progress : BOOLEAN]]]
  BY DEF KeptInv, PageType, Entries
<1> USE Names, <1>0 DEF unchanged_but_page, job_vars, page_vars
<1>1. ASSUME NEW j \in Jobs, Submit(j) PROVE KeptInv'
  <2>1. walk' \in [Senders -> Walks]
    BY <1>1, NewWalk, WalkSet DEF Submit, KeptInv
  <2>2. QED
    BY <1>1, <2>1 DEF Submit, KeptInv
<1>2. CASE Announced
  <2>1. walk' \in [Senders -> Walks]
    BY <1>2, WalkSet DEF Announced
  <2>2. walk[Main].job \in jobs
    BY <1>2 DEF Announced, AnnounceInv, Walked
  <2>3. QED
    BY <1>2, <2>1, <2>2 DEF Announced, KeptInv
<1>3. ASSUME NEW j \in Jobs, Start(j) \/ JobFinished(j) PROVE KeptInv'
  <2>1. walk' \in [Senders -> Walks]
    BY <1>3, NewWalk, WalkSet DEF Start, JobFinished, SendStatus, KeptInv
  <2>2. QED
    BY <1>3, <2>1 DEF Start, JobFinished, KeptInv
<1>4. ASSUME NEW j \in Jobs, Run(j) \/ Completed(j) PROVE KeptInv'
  <2>1. walk' \in [Senders -> Walks]
    BY <1>4, WalkSet DEF Run, Completed
  <2>2. CASE Run(j)
    BY <2>1, <2>2 DEF Run, KeptInv
  <2>3. CASE Completed(j)
    BY <2>1, <2>3 DEF Completed, KeptInv
  <2>4. QED
    BY <1>4, <2>2, <2>3
<1>5. ASSUME NEW j \in Jobs, End(j) PROVE KeptInv'
  BY <1>5 DEF End, KeptInv
<1>6. ASSUME NEW j \in Jobs, ReportProgress(j) PROVE KeptInv'
  <2>1. walk' \in [Senders -> Walks]
    BY <1>6, NewWalk, WalkSet DEF ReportProgress, KeptInv
  <2>2. QED
    BY <1>6, <2>1 DEF ReportProgress, KeptInv
<1>7. CASE Reported
  <2>1. walk' \in [Senders -> Walks]
    BY <1>7, WalkSet DEF Reported
  <2>2. QED
    BY <1>7, <2>1 DEF Reported, KeptInv
<1>8. ASSUME NEW t \in Senders, NEW p \in Pages, Deliver(t, p) PROVE KeptInv'
  <2>1. walk' \in [Senders -> Walks] /\ page' \in PageType
    BY <1>8, DeliverKeeps
  <2>2. QED
    BY <1>8, <2>1, <1>00 DEF Deliver, KeptInv, PageType, Entries
<1>9. ASSUME NEW p \in Pages, Connect(p) \/ Remove(p) PROVE KeptInv'
  <2>1. PICK L \in SUBSET Pages : Change(L)
    BY <1>9 DEF Connect, Remove, KeptInv
  <2>2. walk' \in [Senders -> Walks] /\ listeners' \subseteq Pages /\ torn' \in BOOLEAN
    BY <2>1, ChangeKeeps
  <2>3. handler' \in [Pages -> {"none", "added", "open", "closed", "leaving", "gone"}]
    BY <1>9 DEF Connect, Remove, Step, KeptInv
  <2>4. QED
    BY <1>9, <2>2, <2>3 DEF Connect, Remove, KeptInv
<1>10. ASSUME NEW p \in Pages, Open(p) \/ Close(p) \/ Notice(p) PROVE KeptInv'
  BY <1>10 DEF Open, Close, Notice, Step, KeptInv
<1>11. ASSUME NEW p \in Pages, Sleep(p) \/ WakeUp(p) PROVE KeptInv'
  BY <1>11 DEF Sleep, WakeUp, KeptInv
<1>12. ASSUME NEW p \in Pages, Ask(p) \/ List(p) \/ Listed(p) PROVE KeptInv'
  BY <1>12 DEF Ask, List, Listed, Over, KeptInv
<1>13. ASSUME NEW p \in Pages, Clean(p) PROVE KeptInv'
  <2>1. [j \in Jobs |-> Absent] \in [Jobs -> Entries]
    BY DEF Absent, Entries
  <2>2. page' \in PageType
    BY <1>13, <1>00, <2>1 DEF Clean, CleanInformation, PageType
  <2>3. QED
    BY <1>13, <2>2, <1>00 DEF Clean, KeptInv, PageType, Entries
<1>14. ASSUME NEW p \in Pages, NEW j \in Jobs, SendJob(p, j) PROVE KeptInv'
  <2>1. page' \in PageType
    BY <1>14, <1>00, AddKeeps DEF SendJob
  <2>2. QED
    BY <1>14, <2>1, <1>00 DEF SendJob, KeptInv, PageType, Entries
<1>15. ASSUME NEW p \in Pages, SendFails(p) PROVE KeptInv'
  BY <1>15 DEF SendFails, Over, KeptInv
<1>16. QED
  BY <1>1, <1>2, <1>3, <1>4, <1>5, <1>6, <1>7, <1>8, <1>9, <1>10, <1>11, <1>12, <1>13, <1>14, <1>15
     DEF Next, System, Environment, RunnerStep, SendStep, HandlerStep, RefreshStep

-----------------------------------------------------------------------------
(* Connections, the mutex and announcements.                               *)

LEMMA ConnectedStep ==
  ASSUME KeptInv, ConnectedInv, Next
  PROVE  ConnectedInv'
<1>0. /\ handler \in [Pages -> {"none", "added", "open", "closed", "leaving", "gone"}]
      /\ refresh \in [Pages -> {"none", "asked", "locking", "listing", "done"}]
  BY DEF KeptInv
<1> USE <1>0 DEF ConnectedInv, job_vars, page_vars, unchanged_but_page
<1>1. ASSUME NEW j \in Jobs, RunnerStep(j) \/ Submit(j) \/ ReportProgress(j) PROVE ConnectedInv'
  BY <1>1 DEF RunnerStep, Start, Run, End, JobFinished, Completed, Submit, ReportProgress
<1>2. CASE Announced \/ Reported
  BY <1>2 DEF Announced, Reported
<1>3. ASSUME NEW t \in Senders, NEW p \in Pages, Deliver(t, p) PROVE ConnectedInv'
  BY <1>3 DEF Deliver
<1>4. ASSUME NEW p \in Pages, Connect(p) PROVE ConnectedInv'
  BY <1>4 DEF Connect, Change, Step
<1>5. ASSUME NEW p \in Pages, Remove(p) PROVE ConnectedInv'
  BY <1>5 DEF Remove, Change, Step
<1>6. ASSUME NEW p \in Pages, Open(p) \/ Close(p) \/ Notice(p) PROVE ConnectedInv'
  BY <1>6 DEF Open, Close, Notice, Step
<1>7. ASSUME NEW p \in Pages, Sleep(p) \/ WakeUp(p) PROVE ConnectedInv'
  BY <1>7 DEF Sleep, WakeUp
<1>8. ASSUME NEW p \in Pages, Ask(p) \/ Clean(p) \/ List(p) \/ Listed(p) PROVE ConnectedInv'
  BY <1>8 DEF Ask, Clean, List, Listed, Over
<1>9. ASSUME NEW p \in Pages, SendFails(p) PROVE ConnectedInv'
  BY <1>9 DEF SendFails, Over
<1>10. ASSUME NEW p \in Pages, NEW j \in Jobs, SendJob(p, j) PROVE ConnectedInv'
  BY <1>10 DEF SendJob
<1>11. QED
  BY <1>1, <1>2, <1>3, <1>4, <1>5, <1>6, <1>7, <1>8, <1>9, <1>10
     DEF Next, System, Environment, SendStep, HandlerStep, RefreshStep

\* The mutex is taken when it is free, and freed by who holds it.
LEMMA MutexStep ==
  ASSUME KeptInv, MutexInv, Next
  PROVE  MutexInv'
<1>0. /\ runner \in [Jobs -> {"none", "starting", "running", "ended", "completing", "over"}]
      /\ refresh \in [Pages -> {"none", "asked", "locking", "listing", "done"}]
  BY DEF KeptInv
<1> USE <1>0, Names DEF MutexInv, job_vars, page_vars, unchanged_but_page
<1>1. ASSUME NEW j \in Jobs, Start(j) \/ JobFinished(j) PROVE MutexInv'
  BY <1>1 DEF Start, JobFinished
<1>2. ASSUME NEW j \in Jobs, Run(j) PROVE MutexInv'
  BY <1>2 DEF Run
<1>3. ASSUME NEW j \in Jobs, Completed(j) PROVE MutexInv'
  BY <1>3 DEF Completed
<1>4. ASSUME NEW j \in Jobs, End(j) PROVE MutexInv'
  BY <1>4 DEF End
<1>5. ASSUME NEW j \in Jobs, Submit(j) \/ ReportProgress(j) PROVE MutexInv'
  BY <1>5 DEF Submit, ReportProgress
<1>6. CASE Announced \/ Reported
  BY <1>6 DEF Announced, Reported
<1>7. ASSUME NEW t \in Senders, NEW p \in Pages, Deliver(t, p) PROVE MutexInv'
  BY <1>7 DEF Deliver
<1>8. ASSUME NEW p \in Pages, Connect(p) \/ Remove(p) \/ Open(p) \/ Close(p) \/ Notice(p) PROVE MutexInv'
  BY <1>8 DEF Connect, Remove, Open, Close, Notice
<1>9. ASSUME NEW p \in Pages, Sleep(p) \/ WakeUp(p) PROVE MutexInv'
  BY <1>9 DEF Sleep, WakeUp
<1>10. ASSUME NEW p \in Pages, Ask(p) \/ Clean(p) PROVE MutexInv'
  BY <1>10 DEF Ask, Clean
<1>11. ASSUME NEW p \in Pages, List(p) PROVE MutexInv'
  BY <1>11 DEF List
<1>12. ASSUME NEW p \in Pages, Listed(p) PROVE MutexInv'
  BY <1>12 DEF Listed, Over, Unlock
<1>13. ASSUME NEW p \in Pages, SendFails(p) PROVE MutexInv'
  BY <1>13 DEF SendFails, Over, Unlock
<1>14. ASSUME NEW p \in Pages, NEW j \in Jobs, SendJob(p, j) PROVE MutexInv'
  BY <1>14 DEF SendJob
<1>15. QED
  BY <1>1, <1>2, <1>3, <1>4, <1>5, <1>6, <1>7, <1>8, <1>9, <1>10, <1>11, <1>12, <1>13, <1>14
     DEF Next, System, Environment, RunnerStep, SendStep, HandlerStep, RefreshStep

\* A runner that holds the mutex sends until everyone was told, and then gives
\* it back; so does a refresh, once there is nothing to list.
LEMMA HolderStep ==
  ASSUME KeptInv, MutexInv, HolderInv, Next
  PROVE  HolderInv'
<1>0. /\ runner \in [Jobs -> {"none", "starting", "running", "ended", "completing", "over"}]
      /\ refresh \in [Pages -> {"none", "asked", "locking", "listing", "done"}]
      /\ walk \in [Senders -> Walks] /\ listeners \subseteq Pages
  BY DEF KeptInv
<1> USE <1>0, Names DEF MutexInv, HolderInv, job_vars, page_vars, unchanged_but_page
\* Most steps leave the mutex and who may hold it, and end no walk of a runner.
<1>1. ASSUME UNCHANGED <<runner, mutex, refresh>>, \A j \in Jobs : Busy(j) => Busy(j)'
      PROVE  HolderInv'
  BY <1>1
\* The walk of one sender changes.
<1>2. ASSUME NEW t \in Senders, NEW m, walk' = [walk EXCEPT ![t] = m]
      PROVE  walk'[t] = m /\ \A u \in Senders \ {t} : walk'[u] = walk[u]
  BY <1>2
<1>3. ASSUME NEW j \in Jobs, Start(j) \/ JobFinished(j) PROVE HolderInv'
  <2>1. [type |-> "status", job |-> j, left |-> listeners] # Idle
    BY DEF Idle
  <2>2. Busy(j)' /\ \A k \in Jobs \ {j} : Busy(k)' <=> Busy(k)
    BY <1>3, <1>2, <2>1 DEF Start, JobFinished, SendStatus, Busy
  <2>3. runner'[j] \in {"starting", "completing"} /\ mutex' = j
    BY <1>3 DEF Start, JobFinished
  <2>4. \A k \in Jobs \ {j} : runner'[k] = runner[k]
    BY <1>3 DEF Start, JobFinished
  <2>5. QED
    BY <2>2, <2>3, <2>4
<1>4. ASSUME NEW j \in Jobs, Run(j) \/ Completed(j) PROVE HolderInv'
  <2>1. \A k \in Jobs \ {j} : (Busy(k)' <=> Busy(k)) /\ runner'[k] = runner[k]
    BY <1>4, <1>2 DEF Run, Completed, Busy
  <2>2. runner'[j] \notin {"starting", "completing"} /\ mutex' = Nobody
    BY <1>4 DEF Run, Completed
  <2>3. QED
    BY <2>1, <2>2
<1>5. ASSUME NEW j \in Jobs, End(j) PROVE HolderInv'
  <2>1. \A k \in Jobs : Busy(k)' <=> Busy(k)
    BY <1>5 DEF End, Busy
  <2>2. \A k \in Jobs : runner'[k] = IF k = j THEN "ended" ELSE runner[k]
    BY <1>5 DEF End
  <2>3. mutex' = mutex /\ refresh' = refresh /\ runner[j] = "running"
    BY <1>5 DEF End
  <2>4. QED
    BY <2>1, <2>2, <2>3
<1>6. ASSUME NEW j \in Jobs, Submit(j) \/ ReportProgress(j) PROVE HolderInv'
  <2>1. \A k \in Jobs : Busy(k)' <=> Busy(k)
    BY <1>6, <1>2 DEF Submit, ReportProgress, Busy
  <2>2. QED
    BY <1>1, <1>6, <2>1 DEF Submit, ReportProgress
<1>7. CASE Announced \/ Reported
  <2>1. \A k \in Jobs : Busy(k)' <=> Busy(k)
    BY <1>7, <1>2 DEF Announced, Reported, Busy
  <2>2. QED
    BY <1>1, <1>7, <2>1 DEF Announced, Reported
<1>8. ASSUME NEW t \in Senders, NEW p \in Pages, Deliver(t, p) PROVE HolderInv'
  <2>1. \A k \in Jobs : Busy(k) => Busy(k)'
    BY <1>8, DeliverKeeps DEF Busy
  <2>2. QED
    BY <1>1, <1>8, <2>1 DEF Deliver
<1>9. ASSUME NEW p \in Pages, Connect(p) \/ Remove(p) PROVE HolderInv'
  <2>1. PICK L \in SUBSET Pages : Change(L)
    BY <1>9 DEF Connect, Remove
  <2>2. \A k \in Jobs : Busy(k)' <=> Busy(k)
    BY <2>1, ChangeKeeps
  <2>3. QED
    BY <1>1, <1>9, <2>2 DEF Connect, Remove
<1>10. ASSUME NEW p \in Pages,
              Open(p) \/ Close(p) \/ Notice(p) \/ Sleep(p) \/ WakeUp(p) \/ \E j \in Jobs : SendJob(p, j)
       PROVE  HolderInv'
  BY <1>1, <1>10 DEF Open, Close, Notice, Sleep, WakeUp, SendJob, Busy
<1>11. ASSUME NEW p \in Pages, Ask(p) \/ Clean(p) PROVE HolderInv'
  <2>1. \A q \in Pages : refresh[q] = "listing" => refresh'[q] = "listing"
    BY <1>11 DEF Ask, Clean
  <2>2. UNCHANGED <<runner, mutex, walk>>
    BY <1>11 DEF Ask, Clean
  <2>3. QED
    BY <2>1, <2>2 DEF Busy
<1>12. ASSUME NEW p \in Pages, List(p) PROVE HolderInv'
  BY <1>12 DEF List, Busy
<1>13. ASSUME NEW p \in Pages, Listed(p) PROVE HolderInv'
  BY <1>13 DEF Listed, Over, Unlock, Busy
<1>14. ASSUME NEW p \in Pages, SendFails(p) PROVE HolderInv'
  <2>1. CASE UNCHANGED <<refresh, mutex, todo>>
    BY <1>14, <2>1 DEF SendFails, Busy
  <2>2. CASE refresh' = Over(p) /\ Unlock(p)
    BY <1>14, <2>2 DEF SendFails, Over, Unlock, Busy
  <2>3. QED
    BY <1>14, <2>1, <2>2 DEF SendFails
<1>15. QED
  BY <1>3, <1>4, <1>5, <1>6, <1>7, <1>8, <1>9, <1>10, <1>11, <1>12, <1>13, <1>14
     DEF Next, System, Environment, RunnerStep, SendStep, HandlerStep, RefreshStep

\* The main thread has the walk it had, with the same job.
LEMMA SameAnnounced ==
  ASSUME AnnounceInv, jobs' = jobs, announced' = announced,
         Busy(Main)' => /\ Busy(Main) /\ walk'[Main].type = walk[Main].type
                        /\ walk'[Main].job = walk[Main].job
  PROVE  AnnounceInv'
  BY DEF AnnounceInv

LEMMA AnnounceStep ==
  ASSUME KeptInv, AnnounceInv, Next
  PROVE  AnnounceInv'
<1> USE Names DEF job_vars, page_vars, unchanged_but_page
<1>0. Idle \in Walks
  BY DEF Walks
<1>1. ASSUME NEW j \in Jobs, Submit(j) PROVE AnnounceInv'
  <2>1. walk'[Main] = [type |-> "JOB_ADD", job |-> j, status |-> state[j], left |-> listeners]
    BY <1>1 DEF Submit, KeptInv
  <2>2. walk'[Main].type = "JOB_ADD" /\ walk'[Main].job = j
    BY <2>1
  <2>3. QED
    BY <1>1, <2>2 DEF Submit, AnnounceInv, KeptInv
<1>2. CASE Announced
  BY <1>2, <1>0, WalkSet DEF Announced, AnnounceInv, Busy
<1>3. ASSUME NEW t \in Senders \ {Main}, NEW m \in Walks, walk' = [walk EXCEPT ![t] = m],
             jobs' = jobs, announced' = announced
      PROVE  AnnounceInv'
  BY <1>3, WalkSet, SameAnnounced DEF Busy
<1>4. ASSUME NEW j \in Jobs, RunnerStep(j) PROVE AnnounceInv'
  <2>1. CASE Start(j) \/ JobFinished(j)
    BY <1>3, <2>1, NewWalk DEF Start, JobFinished, SendStatus, KeptInv, States
  <2>2. CASE Run(j) \/ Completed(j)
    BY <1>0, <1>3, <2>2 DEF Run, Completed
  <2>3. CASE End(j)
    BY <2>3, SameAnnounced DEF End, Busy
  <2>4. QED
    BY <1>4, <2>1, <2>2, <2>3 DEF RunnerStep
<1>5. ASSUME NEW j \in Jobs, ReportProgress(j) PROVE AnnounceInv'
  BY <1>3, <1>5, NewWalk DEF ReportProgress, KeptInv, States
<1>6. CASE Reported
  BY <1>0, <1>3, <1>6 DEF Reported
<1>7. ASSUME NEW t \in Senders, NEW p \in Pages, Deliver(t, p) PROVE AnnounceInv'
  <2>1. jobs' = jobs /\ announced' = announced
    BY <1>7 DEF Deliver
  <2>2. QED
    BY <1>7, <2>1, DeliverKeeps, SameAnnounced DEF Busy
<1>8. ASSUME NEW p \in Pages, Connect(p) \/ Remove(p) PROVE AnnounceInv'
  <2>1. PICK L \in SUBSET Pages : Change(L)
    BY <1>8 DEF Connect, Remove, KeptInv
  <2>2. jobs' = jobs /\ announced' = announced
    BY <1>8 DEF Connect, Remove
  <2>3. QED
    BY <2>1, <2>2, ChangeKeeps, SameAnnounced
<1>9. ASSUME UNCHANGED << walk, jobs, announced >> PROVE AnnounceInv'
  BY <1>9, SameAnnounced DEF Busy
<1>10. ASSUME NEW p \in Pages, \/ Open(p) \/ Close(p) \/ Notice(p) \/ Sleep(p) \/ WakeUp(p)
                               \/ Ask(p) \/ RefreshStep(p)
       PROVE  AnnounceInv'
  BY <1>9, <1>10 DEF Open, Close, Notice, Sleep, WakeUp, Ask, RefreshStep, Clean, List, Listed,
     SendFails, SendJob
<1>11. QED
  BY <1>1, <1>2, <1>4, <1>5, <1>6, <1>7, <1>8, <1>10
     DEF Next, System, Environment, SendStep, HandlerStep

-----------------------------------------------------------------------------
(* No job is missing.                                                      *)

Shown(p) == handler[p] = "open" /\ refresh[p] \in {"listing", "done"}

\* A page that is shown the same jobs still has them, or will.
LEMMA StillComing ==
  ASSUME ComingInv, ~torn, NEW p \in Pages, NEW j \in jobs, j \in Jobs, Shown(p),
         refresh'[p] = refresh[p], todo'[p] = todo[p], page[p][j] # Absent => page'[p][j] # Absent,
         Announcing(j) /\ p \in walk[Main].left
           => \/ page'[p][j] # Absent
              \/ Announcing(j)' /\ p \in walk'[Main].left
  PROVE  Coming(p, j)'
  BY DEF ComingInv, Coming, Shown

LEMMA ComingStep ==
  ASSUME KeptInv, ConnectedInv, MutexInv, AnnounceInv, ComingInv, Next
  PROVE  ComingInv'
<1> SUFFICES ASSUME ~torn', NEW p \in Pages, Shown(p)', NEW j \in jobs'
             PROVE  Coming(p, j)'
  BY DEF ComingInv, Shown
<1>0. /\ handler \in [Pages -> {"none", "added", "open", "closed", "leaving", "gone"}]
      /\ refresh \in [Pages -> {"none", "asked", "locking", "listing", "done"}]
      /\ todo \in [Pages -> SUBSET Jobs] /\ page \in PageType /\ jobs \subseteq Jobs
      /\ listeners \subseteq Pages /\ jobs' \subseteq Jobs
  BY KeptStep DEF KeptInv, PageType, Entries
<1>00. Main \in Senders /\ \A k \in Jobs : k \in Senders \ {Main}
  BY Names
<1> USE DEF job_vars, page_vars, unchanged_but_page
\* The steps that change neither the jobs, nor what this page asked for and has.
<1> DEFINE Others == /\ jobs' = jobs /\ handler'[p] = handler[p] /\ refresh'[p] = refresh[p]
                     /\ todo'[p] = todo[p] /\ torn' = torn
<1>1. ASSUME Others, page'[p] = page[p], walk'[Main] = walk[Main]
      PROVE  Coming(p, j)'
  BY <1>0, <1>1, StillComing DEF Announcing, Busy, Shown
<1>2. ASSUME NEW k \in Jobs, Submit(k) PROVE Coming(p, j)'
  <2>1. /\ walk'[Main] = [type |-> "JOB_ADD", job |-> k, status |-> state[k], left |-> listeners]
        /\ ~Busy(Main) /\ mutex = Nobody /\ jobs' = jobs \cup {k}
        /\ UNCHANGED << handler, refresh, todo, page, torn >>
    BY <1>2, <1>00 DEF Submit, KeptInv
  <2>2. CASE j \in jobs
    BY <1>0, <2>1, <2>2, StillComing DEF Announcing, Shown
  <2>3. CASE j = k
    <3>1. refresh[p] = "done" /\ p \in listeners
      BY <2>1, Names DEF MutexInv, ConnectedInv, Shown
    <3>2. Busy(Main)' /\ walk'[Main].job = k /\ walk'[Main].left = listeners
      BY <2>1 DEF Busy, Idle
    <3>3. QED
      BY <2>1, <2>3, <3>1, <3>2 DEF Coming, Announcing
  <2>4. QED
    BY <2>1, <2>2, <2>3
<1>3. CASE Announced
  <2>1. walk[Main].left = {} /\ Others /\ page' = page
    BY <1>3 DEF Announced, Walked
  <2>2. QED
    BY <1>0, <2>1, StillComing DEF Shown
<1>4. ASSUME NEW k \in Jobs, RunnerStep(k) \/ ReportProgress(k) PROVE Coming(p, j)'
  <2>1. Others /\ page' = page
    BY <1>4 DEF RunnerStep, ReportProgress, Start, Run, End, JobFinished, Completed
  <2>2. walk' = walk \/ \E t \in Senders \ {Main} : \E m : walk' = [walk EXCEPT ![t] = m]
    BY <1>00, <1>4, Names DEF RunnerStep, ReportProgress, Start, Run, End, JobFinished, Completed, SendStatus
  <2>3. walk'[Main] = walk[Main]
    BY <1>00, <2>2 DEF KeptInv
  <2>4. QED
    BY <1>1, <2>1, <2>3
<1>5. CASE Reported
  BY <1>1, <1>5, Names DEF Reported, KeptInv
<1>6. ASSUME NEW t \in Senders, NEW q \in Pages, Deliver(t, q) PROVE Coming(p, j)'
  <2>1. Others
    BY <1>6 DEF Deliver
  <2>2. j \in Jobs /\ (page[p][j] # Absent => page'[p][j] # Absent)
    BY <1>0, <1>6, DeliverKeeps DEF More
  <2>3. ASSUME Announcing(j), p \in walk[Main].left
        PROVE  \/ page'[p][j] # Absent
               \/ Announcing(j)' /\ p \in walk'[Main].left
    <3>1. CASE t # Main
      BY <1>00, <1>6, <2>3, <3>1, DeliverKeeps DEF Announcing, Busy
    <3>2. CASE t = Main /\ walk' = walk
      BY <2>3, <3>2 DEF Announcing, Busy
    <3>3. CASE /\ t = Main /\ Busy(Main)' /\ walk'[Main].job = walk[Main].job
               /\ walk'[Main].left = walk[Main].left \ {q}
               /\ handler[q] = "open" /\ walk[Main].type = "JOB_ADD" => page'[q][walk[Main].job] # Absent
      <4>1. CASE q = p
        BY <2>1, <2>3, <3>3, <4>1 DEF Announcing, AnnounceInv, Shown
      <4>2. CASE q # p
        BY <2>3, <3>3, <4>2 DEF Announcing
      <4>3. QED
        BY <4>1, <4>2
    <3>4. QED
      BY <1>6, <3>1, <3>2, <3>3, DeliverKeeps, Names
  <2>4. QED
    BY <2>1, <2>2, <2>3, StillComing DEF Shown
<1>7. ASSUME NEW q \in Pages, Connect(q) \/ Remove(q) PROVE Coming(p, j)'
  <2>1. PICK L \in SUBSET Pages : Change(L)
    BY <1>7 DEF Connect, Remove, KeptInv
  <2>2. ~torn /\ walk' = walk
    BY <2>1, ChangeKeeps
  <2>3. UNCHANGED << jobs, refresh, todo, page >>
    BY <1>7 DEF Connect, Remove
  <2>4. handler'[p] = handler[p]
    BY <1>0, <1>7 DEF Connect, Remove, Step, Shown
  <2>5. QED
    BY <1>0, <2>2, <2>3, <2>4, StillComing DEF Announcing, Busy, Shown
<1>8. ASSUME NEW q \in Pages, Open(q) PROVE Coming(p, j)'
  <2>1. UNCHANGED << jobs, refresh, todo, page, walk, torn >>
    BY <1>8 DEF Open
  <2>2. q # p
    BY <1>0, <1>8, <2>1 DEF Open, Step, ConnectedInv, Shown
  <2>3. handler'[p] = handler[p]
    BY <1>0, <1>8, <2>2 DEF Open, Step
  <2>4. QED
    BY <1>1, <2>1, <2>3
<1>9. ASSUME NEW q \in Pages, Close(q) \/ Notice(q) PROVE Coming(p, j)'
  <2>1. UNCHANGED << jobs, refresh, todo, page, walk, torn >>
    BY <1>9 DEF Close, Notice
  <2>2. handler'[p] = handler[p]
    BY <1>0, <1>9 DEF Close, Notice, Step, Shown
  <2>3. QED
    BY <1>1, <2>1, <2>2
<1>10. ASSUME NEW q \in Pages, Sleep(q) \/ WakeUp(q) PROVE Coming(p, j)'
  BY <1>1, <1>10 DEF Sleep, WakeUp
<1>11. ASSUME NEW q \in Pages, Ask(q) PROVE Coming(p, j)'
  <2>1. q # p
    BY <1>0, <1>11 DEF Ask, Shown
  <2>2. QED
    BY <1>0, <1>1, <1>11, <2>1 DEF Ask
<1>12. ASSUME NEW q \in Pages, Clean(q) PROVE Coming(p, j)'
  <2>1. q # p
    BY <1>0, <1>12 DEF Clean, Shown
  <2>2. page'[p] = page[p]
    BY <1>0, <1>12, <2>1 DEF Clean, CleanInformation, PageType
  <2>3. QED
    BY <1>0, <1>1, <1>12, <2>1, <2>2 DEF Clean
<1>13. ASSUME NEW q \in Pages, List(q) PROVE Coming(p, j)'
  <2>1. CASE q = p
    BY <1>0, <1>13, <2>1 DEF List, Coming
  <2>2. CASE q # p
    BY <1>0, <1>1, <1>13, <2>2 DEF List
  <2>3. QED
    BY <2>1, <2>2
<1>14. ASSUME NEW q \in Pages, NEW k \in Jobs, SendJob(q, k) PROVE Coming(p, j)'
  <2>1. UNCHANGED << jobs, handler, refresh, walk, torn >> /\ todo' = [todo EXCEPT ![q] = todo[q] \ {k}]
    BY <1>14 DEF SendJob
  <2>2. j \in Jobs /\ More(page') /\ (q = p => page'[p][k] # Absent)
    BY <1>0, <1>14, <2>1, AddKeeps DEF SendJob, Sending, More, Shown, KeptInv
  <2>3. Coming(p, j)
    BY <2>1 DEF ComingInv, Shown
  <2>4. QED
    BY <1>0, <2>1, <2>2, <2>3 DEF Coming, More, Announcing, Busy
<1>15. ASSUME NEW q \in Pages, Listed(q) PROVE Coming(p, j)'
  <2>1. CASE q = p
    <3>1. Coming(p, j) /\ refresh[p] = "listing" /\ todo[p] = {} /\ page' = page
      BY <1>15, <2>1 DEF Listed, ComingInv, Shown
    <3>2. QED
      BY <3>1 DEF Coming
  <2>2. CASE q # p
    BY <1>0, <1>1, <1>15, <2>2 DEF Listed, Over
  <2>3. QED
    BY <2>1, <2>2
<1>16. ASSUME NEW q \in Pages, SendFails(q) PROVE Coming(p, j)'
  <2>1. q # p
    BY <1>16 DEF SendFails, Shown
  <2>2. QED
    BY <1>0, <1>1, <1>16, <2>1 DEF SendFails, Over
<1>17. QED
  BY <1>2, <1>3, <1>4, <1>5, <1>6, <1>7, <1>8, <1>9, <1>10, <1>11, <1>12, <1>13, <1>14, <1>15, <1>16
     DEF Next, System, Environment, SendStep, HandlerStep, RefreshStep

-----------------------------------------------------------------------------
(* The invariant.                                                          *)

LEMMA ListenersInit == Init => IInv
<1> SUFFICES ASSUME Init PROVE IInv
  OBVIOUS
<1>1. KeptInv
  BY DEF Init, KeptInv, States, Walks, Absent
<1>2. ConnectedInv /\ MutexInv /\ HolderInv /\ AnnounceInv /\ ComingInv
  BY Names DEF Init, ConnectedInv, MutexInv, HolderInv, AnnounceInv, ComingInv, Busy
<1>3. QED
  BY <1>1, <1>2 DEF IInv

LEMMA ListenersStutter == IInv /\ UNCHANGED vars => IInv'
<1> SUFFICES ASSUME IInv, UNCHANGED vars PROVE IInv'
  OBVIOUS
<1> USE DEF vars, job_vars, page_vars, IInv
<1>1. KeptInv'
  BY DEF KeptInv
<1>2. ConnectedInv' /\ MutexInv' /\ HolderInv' /\ AnnounceInv' /\ ComingInv'
  BY DEF ConnectedInv, MutexInv, HolderInv, AnnounceInv, ComingInv, Coming, Announcing, Busy
<1>3. QED
  BY <1>1, <1>2

LEMMA ListenersInvariant == Spec => []IInv
<1>1. ASSUME IInv, [Next]_vars PROVE IInv'
  BY <1>1, ListenersStutter, KeptStep, ConnectedStep, MutexStep, HolderStep, AnnounceStep, ComingStep
     DEF IInv
<1>2. QED
  BY <1>1, ListenersInit, PTL DEF Spec

\* No job that was announced is missing from a page that was refreshed,
\* however submissions, connections and refreshes interleave, as long as the
\* listeners do not change during an announcement.
THEOREM PagesMissNothing == Spec => []NothingMissed
<1>1. IInv => NothingMissed
  BY DEF IInv, KeptInv, AnnounceInv, ComingInv, Coming, Announcing, NothingMissed
<1>2. QED
  BY <1>1, ListenersInvariant, PTL

\* Who holds WORKSPACE_MUTEX can go on as long as every page reads: it has
\* someone to tell, or it gives the mutex back.
LEMMA HolderMoves ==
  ASSUME KeptInv, HolderInv, Awake, ~crashed, mutex # Nobody
  PROVE  CanMove
<1>1. CASE \E j \in Jobs : mutex = j /\ runner[j] \in {"starting", "completing"}
  <2>1. PICK j \in Jobs : runner[j] \in {"starting", "completing"} /\ Busy(j)
    BY <1>1 DEF HolderInv
  <2>2. walk[j] \in Walks /\ walk[j] # Idle /\ j \in Senders
    BY <2>1, Names DEF KeptInv, Busy
  <2>3. CASE walk[j].left = {}
    BY <2>1, <2>3 DEF CanMove, Walked
  <2>4. ASSUME NEW p \in walk[j].left PROVE CanMove
    <3>1. p \in Pages
      BY <2>2, WalkTypes
    <3>2. CanSend(p)
      BY <3>1 DEF Awake, CanSend
    <3>3. QED
      BY <2>1, <2>2, <2>4, <3>2 DEF CanMove
  <2>5. QED
    BY <2>3, <2>4
<1>2. CASE \E p \in Pages : mutex = p /\ refresh[p] = "listing"
  BY <1>2 DEF CanMove, Awake, CanSend
<1>3. QED
  BY <1>1, <1>2 DEF HolderInv

\* When nobody holds it, a request is answered and a runner goes on.
LEMMA FreeMoves ==
  ASSUME KeptInv, MutexInv, Awake, ~crashed, mutex = Nobody, ~CanMove
  PROVE  /\ \A p \in Pages : refresh[p] \in {"none", "done"}
         /\ \A j \in announced : runner[j] = "over"
<1>1. ASSUME NEW p \in Pages PROVE refresh[p] \in {"none", "done"}
  <2>1. refresh[p] \in {"none", "asked", "locking", "listing", "done"}
    BY DEF KeptInv
  <2>2. refresh[p] # "asked" /\ refresh[p] # "locking"
    BY DEF CanMove, Awake, CanSend
  <2>3. refresh[p] # "listing"
    BY Names DEF MutexInv
  <2>4. QED
    BY <2>1, <2>2, <2>3
<1>2. ASSUME NEW j \in announced PROVE runner[j] = "over"
  <2>1. j \in Jobs /\ j \in jobs
    BY DEF KeptInv
  <2>2. runner[j] \in {"none", "starting", "running", "ended", "completing", "over"}
    BY <2>1 DEF KeptInv
  <2>3. runner[j] \notin {"none", "running", "ended"}
    BY <2>1 DEF CanMove
  <2>4. runner[j] \notin {"starting", "completing"}
    BY <2>1, Names DEF MutexInv
  <2>5. QED
    BY <2>2, <2>3, <2>4
<1>3. QED
  BY <1>1, <1>2

\* The program never stalls, however many jobs run and pages connect,
\* refresh and go away, unless a page that does not read holds it up: no
\* thread waits for a mutex whose owner waits as well.
THEOREM NeverStalls == Spec => []NoStall
<1>1. IInv => NoStall
  BY HolderMoves, FreeMoves, Names DEF IInv, NoStall
<1>2. QED
  BY <1>1, ListenersInvariant, PTL
=============================================================================
