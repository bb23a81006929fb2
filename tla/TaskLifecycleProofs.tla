------------------------- MODULE TaskLifecycleProofs ------------------------
(***************************************************************************)
(* Machine-checked proofs about TaskLifecycle, for every set of tasks,      *)
(* request and job slots, every set of triggers and faults, and both orders *)
(* of commit and background task.                                           *)
(***************************************************************************)
EXTENDS TaskLifecycle, TLAPS

(* The first multiple of n from x on is a natural number, not before x.     *)
(* (FirstMatch: CronTrigger's search in compute_next_run_at.)               *)
LEMMA FirstMatchType ==
  ASSUME NEW n \in Nat, n > 0, NEW x \in Nat
  PROVE  FirstMatch(n, x) \in Nat /\ FirstMatch(n, x) >= x
<1>1. (-x) % n \in 0 .. (n - 1)
  OBVIOUS
<1>2. QED
  BY <1>1 DEF FirstMatch

(* compute_next_run_at returns a time, or NULL exactly for an expression    *)
(* that matches no date.                                                    *)
LEMMA NextRunAtType ==
  ASSUME NEW tr \in TriggerSpec, NEW x \in Nat
  PROVE  /\ compute_next_run_at(tr, x) \in Time
         /\ compute_next_run_at(tr, x) # NULL <=> Satisfiable(tr)
<1>1. tr.type \in TriggerType /\ tr.n \in Nat /\ (tr.type = "interval" => tr.n > 0)
  BY DEF TriggerSpec
<1>2. CASE tr.type = "cron" /\ tr.n > 0
  <2>1. FirstMatch(tr.n, x) \in Nat
    BY <1>1, <1>2, FirstMatchType
  <2>2. compute_next_run_at(tr, x) = FirstMatch(tr.n, x)
    BY <1>1, <1>2 DEF compute_next_run_at
  <2>3. QED
    BY <1>2, <2>1, <2>2, NullAssumption DEF Time, Satisfiable
<1>3. CASE tr.type = "cron" /\ tr.n = 0
  BY <1>1, <1>3, NullAssumption DEF compute_next_run_at, Time, Satisfiable
<1>4. CASE tr.type # "cron"
  BY <1>1, <1>4, NullAssumption DEF compute_next_run_at, Time, Satisfiable, TriggerType
<1>5. QED
  BY <1>1, <1>2, <1>3, <1>4

(* The fire time of a schedule after a dispatch is a time or NULL.          *)
LEMMA NextFireType ==
  ASSUME NEW tr \in TriggerSpec, NEW f \in Nat, NEW x \in Nat, f <= x
  PROVE  NextFire(tr, f, x) \in Time
<1>1. tr.type \in TriggerType /\ tr.n \in Nat /\ (tr.type = "interval" => tr.n > 0)
  BY DEF TriggerSpec
<1>2. CASE tr.type = "interval"
  <2>1. (x - f) % tr.n \in 0 .. (tr.n - 1)
    BY <1>1, <1>2
  <2>2. x + tr.n - ((x - f) % tr.n) \in Nat
    BY <1>1, <2>1
  <2>3. QED
    BY <1>2, <2>2 DEF NextFire, Time
<1>3. CASE tr.type = "cron" /\ tr.n > 0
  <2>1. FirstMatch(tr.n, x + 1) \in Nat
    BY <1>1, <1>3, FirstMatchType
  <2>2. QED
    BY <1>1, <1>3, <2>1 DEF NextFire, Time
<1>4. CASE tr.type = "once" \/ (tr.type = "cron" /\ tr.n = 0)
  BY <1>1, <1>4 DEF NextFire, Time
<1>5. QED
  BY <1>1, <1>2, <1>3, <1>4 DEF TriggerType

-----------------------------------------------------------------------------
(* What must be known of the requests and jobs in flight for the types to   *)
(* be preserved: they name a task with a trigger, and the schedule store    *)
(* only knows such tasks.                                                   *)
RequestsInFlight ==
  \A r \in Request : req[r].pc # "idle" =>
    /\ req[r].task \in Task
    /\ trigger[req[r].task] # NULL
    /\ req[r].op \in Op

JobsInFlight ==
  \A j \in Job : job[j].pc # "idle" =>
    job[j].task \in Task /\ trigger[job[j].task] # NULL

TriggersKnown ==
  \A t \in Task : (sched[t] # NULL \/ Exists(t)) => trigger[t] # NULL

InFlight == RequestsInFlight /\ JobsInFlight /\ TriggersKnown

TypeInv == TypeOK /\ InFlight

(* How a deferred step moves the request in slot r, or a job step the job   *)
(* in slot j: it ends, or keeps everything but its program position.        *)
Progress(r) ==
  /\ req' \in [Request -> RequestState]
  /\ \A s \in Request \ {r} : req'[s] = req[s]
  /\ \/ req'[r] = IdleRequest
     \/ /\ req[r].pc # "idle"
        /\ req'[r].op = req[r].op /\ req'[r].task = req[r].task
        /\ req'[r].bg = req[r].bg /\ req'[r].next = req[r].next

JobProgress(j) ==
  /\ job' \in [Job -> JobState]
  /\ \A k \in Job \ {j} : job'[k] = job[k]
  /\ job'[j] = IdleJob \/ (job[j].pc # "idle" /\ job'[j].task = job[j].task)

(* A request that ends or moves on makes Progress. *)
LEMMA RequestEnds ==
  ASSUME TypeOK, NEW r \in Request, req' = [req EXCEPT ![r] = IdleRequest]
  PROVE  Progress(r) /\ req'[r] = IdleRequest
BY DEF TypeOK, Progress, RequestState, IdleRequest, Time

(* A request that goes on to another step keeps its handler and task. *)
LEMMA RequestMoves ==
  ASSUME TypeOK, NEW r \in Request, req[r].pc # "idle",
         NEW p \in {"background", "commit", "firing"},
         req' = [req EXCEPT ![r] = [req[r] EXCEPT !.pc = p]]
  PROVE  Progress(r) /\ req'[r].pc = p
BY DEF TypeOK, Progress, RequestState

(* A job that ends or moves on makes JobProgress. *)
LEMMA JobEnds ==
  ASSUME TypeOK, NEW j \in Job, job' = [job EXCEPT ![j] = IdleJob]
  PROVE  JobProgress(j) /\ job'[j] = IdleJob
BY DEF TypeOK, JobProgress, JobState, IdleJob

(* A job that goes on to another step keeps its task. *)
LEMMA JobMoves ==
  ASSUME TypeOK, NEW j \in Job, job[j].pc # "idle", NEW p \in {"firing", "remove"},
         job' = [job EXCEPT ![j] = [job[j] EXCEPT !.pc = p]]
  PROVE  JobProgress(j) /\ job'[j].pc = p
BY DEF TypeOK, JobProgress, JobState

(* The deferred steps of a request, and where each leaves it.               *)
LEMMA RequestStepProgress ==
  ASSUME TypeOK, NEW r \in Request, RequestStep(r)
  PROVE  /\ Progress(r)
         /\ req'[r].pc \in {"idle", "background", "commit", "firing"}
         /\ req'[r].pc = "background" => CommitFirst /\ Commit(r)
         /\ req'[r].pc = "commit" => ~CommitFirst /\ req[r].pc = "background"
         /\ req'[r].pc = "firing" => req[r].pc = "load" /\ Exists(req[r].task)
<1>1. CASE req' = [req EXCEPT ![r] = IdleRequest]
  <2>1. Progress(r) /\ req'[r] = IdleRequest
    BY <1>1, RequestEnds
  <2>2. req'[r].pc = "idle"
    BY <2>1 DEF IdleRequest
  <2>3. QED
    BY <2>1, <2>2
<1>2. CASE register_schedule(r) \/ unregister_schedule(r)
  <2>1. CASE CommitFirst
    BY <1>1, <1>2, <2>1 DEF register_schedule, unregister_schedule, BackgroundDone
  <2>2. CASE ~CommitFirst
    <3>1. req[r].pc = "background" /\ req' = [req EXCEPT ![r] = [req[r] EXCEPT !.pc = "commit"]]
      BY <1>2, <2>2 DEF register_schedule, unregister_schedule, BackgroundDone
    <3>2. QED
      BY <3>1, <2>2, RequestMoves
  <2>3. QED
    BY <2>1, <2>2
<1>3. CASE Commit(r)
  <2>1. CASE CommitFirst /\ req[r].bg # "none"
    <3>1. req[r].pc = "commit" /\ req' = [req EXCEPT ![r] = [req[r] EXCEPT !.pc = "background"]]
      BY <1>3, <2>1 DEF Commit, CommitDone
    <3>2. QED
      BY <3>1, <1>3, <2>1, RequestMoves
  <2>2. CASE ~(CommitFirst /\ req[r].bg # "none")
    BY <1>1, <1>3, <2>2 DEF Commit, CommitDone
  <2>3. QED
    BY <2>1, <2>2
<1>4. CASE run_task_manually(r)
  <2>1. CASE Exists(req[r].task)
    <3>1. req[r].pc = "load" /\ req' = [req EXCEPT ![r] = [req[r] EXCEPT !.pc = "firing"]]
      BY <1>4, <2>1 DEF run_task_manually
    <3>2. QED
      BY <3>1, <2>1, RequestMoves
  <2>2. CASE ~Exists(req[r].task)
    BY <1>1, <1>4, <2>2 DEF run_task_manually
  <2>3. QED
    BY <2>1, <2>2
<1>5. CASE BackgroundFails(r) \/ Rollback(r) \/ RecordManualRun(r)
  BY <1>1, <1>5 DEF BackgroundFails, Rollback, RecordManualRun
<1>6. QED
  BY <1>2, <1>3, <1>4, <1>5 DEF RequestStep

(* The steps of a job, and where each leaves it.                            *)
LEMMA JobStepProgress ==
  ASSUME TypeOK, NEW j \in Job, JobStep(j)
  PROVE  /\ JobProgress(j)
         /\ job'[j].pc \in {"idle", "firing", "remove"}
         /\ job'[j].pc = "firing" => IsActive(job[j].task)
         /\ job'[j].pc = "remove" => job[j].pc = "firing" /\ RecordSuccess(j)
<1>1. CASE job' = [job EXCEPT ![j] = IdleJob]
  <2>1. JobProgress(j) /\ job'[j] = IdleJob
    BY <1>1, JobEnds
  <2>2. job'[j].pc = "idle"
    BY <2>1 DEF IdleJob
  <2>3. QED
    BY <2>1, <2>2
<1>2. CASE LoadTask(j)
  <2>1. CASE IsActive(job[j].task)
    <3>1. job[j].pc = "queued" /\ job' = [job EXCEPT ![j] = [job[j] EXCEPT !.pc = "firing"]]
      BY <1>2, <2>1 DEF LoadTask
    <3>2. QED
      BY <3>1, <2>1, JobMoves
  <2>2. CASE ~IsActive(job[j].task)
    BY <1>1, <1>2, <2>2 DEF LoadTask
  <2>3. QED
    BY <2>1, <2>2
<1>3. CASE RecordSuccess(j)
  <2>1. CASE OneShot(job[j].task)
    <3>1. job[j].pc = "firing" /\ job' = [job EXCEPT ![j] = [job[j] EXCEPT !.pc = "remove"]]
      BY <1>3, <2>1 DEF RecordSuccess
    <3>2. QED
      BY <3>1, <1>3, JobMoves
  <2>2. CASE ~OneShot(job[j].task)
    BY <1>1, <1>3, <2>2 DEF RecordSuccess
  <2>3. QED
    BY <2>1, <2>2
<1>4. CASE RecordFailure(j) \/ JobRollback(j) \/ RemoveFiredSchedule(j)
  BY <1>1, <1>4 DEF RecordFailure, JobRollback, RemoveFiredSchedule
<1>5. QED
  BY <1>2, <1>3, <1>4 DEF JobStep

(* Requests and jobs that make progress go on naming tasks with a trigger.  *)
LEMMA ProgressInFlight ==
  ASSUME TypeOK, RequestsInFlight, UNCHANGED trigger, NEW r \in Request, Progress(r)
  PROVE  RequestsInFlight'
<1> SUFFICES ASSUME NEW s \in Request, req'[s].pc # "idle"
             PROVE  /\ req'[s].task \in Task
                    /\ trigger[req'[s].task] # NULL
                    /\ req'[s].op \in Op
  BY DEF RequestsInFlight
<1>1. CASE s # r
  BY <1>1 DEF Progress, RequestsInFlight
<1>2. CASE s = r
  BY <1>2 DEF Progress, RequestsInFlight, IdleRequest
<1>3. QED
  BY <1>1, <1>2

(* The same for the steps of a job. *)
LEMMA JobProgressInFlight ==
  ASSUME TypeOK, JobsInFlight, UNCHANGED trigger, NEW j \in Job, JobProgress(j)
  PROVE  JobsInFlight'
<1> SUFFICES ASSUME NEW k \in Job, job'[k].pc # "idle"
             PROVE  job'[k].task \in Task /\ trigger[job'[k].task] # NULL
  BY DEF JobsInFlight
<1>1. CASE k # j
  BY <1>1 DEF JobProgress, JobsInFlight
<1>2. CASE k = j
  BY <1>2 DEF JobProgress, JobsInFlight, IdleJob
<1>3. QED
  BY <1>1, <1>2

(* Appending one event of the vocabulary keeps the history a function to    *)
(* sequences of events.                                                     *)
LEMMA AppendType ==
  ASSUME TypeOK, NEW t \in Task, NEW e \in Event, Append1(t, e)
  PROVE  history' \in [Task -> Seq(Event)]
BY DEF TypeOK, Append1

(* Appending makes the history of t longer and touches no other task's.     *)
LEMMA AppendEffect ==
  ASSUME TypeOK, NEW t \in Task, NEW e \in Event, Append1(t, e)
  PROVE  /\ history'[t] = Append(history[t], e)
         /\ Len(history'[t]) = Len(history[t]) + 1
         /\ history'[t] # <<>>
         /\ \A u \in Task \ {t} : history'[u] = history[u]
<1>1. history'[t] = Append(history[t], e) /\ \A u \in Task \ {t} : history'[u] = history[u]
  BY DEF TypeOK, Append1
<1>2. history[t] \in Seq(Event)
  BY DEF TypeOK
<1>3. Len(Append(history[t], e)) = Len(history[t]) + 1 /\ Append(history[t], e) # <<>>
  BY <1>2
<1>4. QED
  BY <1>1, <1>3

(* Unfolds Next into the actions it is made of. *)
LEMMA NextCases ==
  ASSUME [Next]_vars
  PROVE  \/ \E r \in Request, t \in Task, tr \in Trigger : create_task(r, t, tr)
         \/ \E r \in Request, t \in Task :
              activate_task(r, t) \/ deactivate_task(r, t) \/ delete_task(r, t) \/ run_task(r, t)
         \/ \E r \in Request : RequestStep(r)
         \/ \E j \in Job, t \in Task : Dispatch(j, t)
         \/ \E j \in Job : JobStep(j)
         \/ Crash
         \/ Tick
         \/ UNCHANGED vars
BY DEF Next, ClientStep

(* A step of the system keeps the types and what is known of the requests   *)
(* and jobs in flight: one case for each handler, deferred step and job     *)
(* step of TaskLifecycle.                                                   *)
LEMMA TypeInvStep ==
  ASSUME TypeInv, [Next]_vars
  PROVE  TypeInv'
<1> USE TriggerAssumption, NullIsNoTask DEF TypeInv, InFlight, Exists
<1>1. ASSUME NEW r \in Request, NEW t \in Task, NEW tr \in Trigger, create_task(r, t, tr)
      PROVE  TypeInv'
  <2>1. compute_next_run_at(tr, now) \in Time
    BY NextRunAtType DEF TypeOK
  <2>2. TypeOK'
    BY <1>1, <2>1 DEF TypeOK, create_task, Defer, RequestState, Op
  <2>3. InFlight'
    BY <1>1 DEF TypeOK, RequestsInFlight, JobsInFlight, TriggersKnown, create_task, Defer, RequestState, Op
  <2>4. QED
    BY <2>2, <2>3
<1>2. ASSUME NEW r \in Request, NEW t \in Task, activate_task(r, t)
      PROVE  TypeInv'
  <2>1. trigger[t] \in TriggerSpec
    BY <1>2 DEF TypeOK, RequestsInFlight, JobsInFlight, TriggersKnown, activate_task, Row
  <2>2. compute_next_run_at(trigger[t], now) \in Time
    BY <2>1, NextRunAtType DEF TypeOK
  <2>3. TypeOK'
    BY <1>2, <2>2 DEF TypeOK, activate_task, Defer, RequestState, Op
  <2>4. InFlight'
    BY <1>2 DEF TypeOK, RequestsInFlight, JobsInFlight, TriggersKnown, activate_task, Defer, RequestState, Op
  <2>5. QED
    BY <2>3, <2>4
<1>3. ASSUME NEW r \in Request, NEW t \in Task, deactivate_task(r, t)
      PROVE  TypeInv'
  <2>1. TypeOK'
    BY <1>3 DEF TypeOK, deactivate_task, Defer, RequestState, Op, Time
  <2>2. InFlight'
    BY <1>3 DEF TypeOK, RequestsInFlight, JobsInFlight, TriggersKnown, deactivate_task, IsActive, Defer, RequestState, Op
  <2>3. QED
    BY <2>1, <2>2
<1>4. ASSUME NEW r \in Request, NEW t \in Task, delete_task(r, t)
      PROVE  TypeInv'
  <2>1. TypeOK'
    BY <1>4 DEF TypeOK, delete_task, Defer, RequestState, Op, Time
  <2>2. InFlight'
    BY <1>4 DEF TypeOK, RequestsInFlight, JobsInFlight, TriggersKnown, delete_task, Defer, RequestState, Op
  <2>3. QED
    BY <2>1, <2>2
<1>5. ASSUME NEW r \in Request, NEW t \in Task, run_task(r, t)
      PROVE  TypeInv'
  <2>1. TypeOK'
    BY <1>5 DEF TypeOK, run_task, RequestState, Op, Time
  <2>2. InFlight'
    BY <1>5 DEF TypeOK, RequestsInFlight, JobsInFlight, TriggersKnown, run_task, RequestState, Op
  <2>3. QED
    BY <2>1, <2>2
<1>6. ASSUME NEW r \in Request, RequestStep(r)
      PROVE  TypeInv'
  <2>1. Progress(r)
    BY <1>6, RequestStepProgress
  <2>2. req[r].task \in Task /\ trigger[req[r].task] \in TriggerSpec
    BY <1>6 DEF TypeOK, RequestsInFlight, RequestStep, register_schedule, unregister_schedule,
                BackgroundFails, Commit, Rollback, run_task_manually, RecordManualRun
  <2>3. CASE register_schedule(r) \/ unregister_schedule(r) \/ BackgroundFails(r)
    <3>1. compute_next_run_at(trigger[req[r].task], now) \in Time
      BY <2>2, NextRunAtType DEF TypeOK
    <3>2. sched' \in {sched, ScheduleAfter(r)} /\ UNCHANGED <<now, trigger, row, history, job>>
      BY <2>3 DEF register_schedule, unregister_schedule, BackgroundFails
    <3>3. sched' \in [Task -> Time]
      BY <2>2, <3>1, <3>2 DEF TypeOK, ScheduleAfter, Time
    <3>4. TriggersKnown'
      BY <2>2, <3>2 DEF TypeOK, TriggersKnown, ScheduleAfter
    <3>5. InFlight'
      BY <2>1, <3>2, <3>4, ProgressInFlight DEF JobsInFlight
    <3>6. QED
      BY <2>1, <3>2, <3>3, <3>5 DEF TypeOK, Progress
  <2>4. CASE Commit(r)
    <3>1. CommittedRow(r) \in Row /\ CommittedEvent(r) \in Event
      BY DEF TypeOK, RequestState, CommittedRow, CommittedEvent, ActiveRow, InactiveRow, Absent,
             Row, Event, LifecycleEvent, Time
    <3>2. row' \in [Task -> Row] /\ history' \in [Task -> Seq(Event)]
      BY <2>2, <2>4, <3>1, AppendType DEF TypeOK, Commit
    <3>3. TriggersKnown'
      BY <2>2, <2>4 DEF TypeOK, TriggersKnown, Commit
    <3>4. InFlight'
      BY <2>1, <2>4, <3>3, ProgressInFlight DEF JobsInFlight, Commit
    <3>5. QED
      BY <2>1, <2>4, <3>2, <3>4 DEF TypeOK, Commit, Progress
  <2>5. CASE Rollback(r) \/ run_task_manually(r)
    <3>1. UNCHANGED <<now, trigger, row, sched, history, job>>
      BY <2>5 DEF Rollback, run_task_manually
    <3>2. QED
      BY <2>1, <3>1, ProgressInFlight DEF TypeOK, JobsInFlight, TriggersKnown, Progress
  <2>6. CASE RecordManualRun(r)
    <3>1. UNCHANGED <<now, trigger, row, sched, job>>
      BY <2>6 DEF RecordManualRun
    <3>2. history' \in [Task -> Seq(Event)]
      BY <2>2, <2>6, AppendType DEF TypeOK, RecordManualRun, Event
    <3>3. QED
      BY <2>1, <3>1, <3>2, ProgressInFlight DEF TypeOK, JobsInFlight, TriggersKnown, Progress
  <2>7. QED
    BY <1>6, <2>3, <2>4, <2>5, <2>6 DEF RequestStep
<1>7. ASSUME NEW j \in Job, NEW t \in Task, Dispatch(j, t)
      PROVE  TypeInv'
  <2>1. sched[t] \in Nat /\ sched[t] <= now /\ trigger[t] \in TriggerSpec
    BY <1>7 DEF Dispatch, TypeOK, TriggersKnown, Time
  <2>2. NextFire(trigger[t], sched[t], now) \in Time
    BY <2>1, NextFireType DEF TypeOK
  <2>3. TypeOK'
    BY <1>7, <2>2 DEF TypeOK, Dispatch, JobState
  <2>4. InFlight'
    BY <1>7, <2>1 DEF TypeOK, RequestsInFlight, JobsInFlight, TriggersKnown, Dispatch
  <2>5. QED
    BY <2>3, <2>4
<1>8. ASSUME NEW j \in Job, JobStep(j)
      PROVE  TypeInv'
  <2>1. JobProgress(j)
    BY <1>8, JobStepProgress
  <2>2. job[j].task \in Task /\ trigger[job[j].task] # NULL
    BY <1>8 DEF JobsInFlight, JobStep, LoadTask, RecordFailure, RecordSuccess, JobRollback,
                RemoveFiredSchedule
  <2>3. CASE LoadTask(j) \/ JobRollback(j)
    <3>1. UNCHANGED <<now, trigger, row, sched, history, req>>
      BY <2>3 DEF LoadTask, JobRollback
    <3>2. QED
      BY <2>1, <3>1, JobProgressInFlight DEF TypeOK, RequestsInFlight, TriggersKnown, JobProgress
  <2>4. CASE RecordFailure(j) \/ RecordSuccess(j)
    <3>1. UNCHANGED <<now, trigger, sched, req>>
      BY <2>4 DEF RecordFailure, RecordSuccess
    <3>2. history' \in [Task -> Seq(Event)]
      BY <2>2, <2>4, AppendType DEF RecordFailure, RecordSuccess, Event
    <3>3. row' = row \/ row' = [row EXCEPT ![job[j].task] = InactiveRow]
      BY <2>4 DEF RecordFailure, RecordSuccess
    <3>4. row' \in [Task -> Row]
      BY <2>2, <3>3 DEF TypeOK, InactiveRow, Row, Time
    <3>5. TriggersKnown'
      BY <2>2, <3>1, <3>3 DEF TypeOK, TriggersKnown
    <3>6. InFlight'
      BY <2>1, <3>1, <3>5, JobProgressInFlight DEF RequestsInFlight
    <3>7. QED
      BY <2>1, <3>1, <3>2, <3>4, <3>6 DEF TypeOK, JobProgress
  <2>5. CASE RemoveFiredSchedule(j)
    <3>1. UNCHANGED <<now, trigger, row, history, req>>
      BY <2>5 DEF RemoveFiredSchedule
    <3>2. sched' = sched \/ sched' = [sched EXCEPT ![job[j].task] = NULL]
      BY <2>5 DEF RemoveFiredSchedule
    <3>3. TypeOK'
      BY <2>1, <3>1, <3>2 DEF TypeOK, JobProgress, Time
    <3>4. TriggersKnown'
      BY <2>2, <3>1, <3>2 DEF TypeOK, TriggersKnown
    <3>5. QED
      BY <2>1, <3>1, <3>3, <3>4, JobProgressInFlight DEF RequestsInFlight
  <2>6. QED
    BY <1>8, <2>3, <2>4, <2>5 DEF JobStep
<1>9. CASE Crash
  <2>1. TypeOK'
    BY <1>9 DEF TypeOK, Crash, IdleRequest, IdleJob, RequestState, JobState, Time
  <2>2. InFlight'
    BY <1>9 DEF TypeOK, RequestsInFlight, JobsInFlight, TriggersKnown, Crash, IdleRequest, IdleJob
  <2>3. QED
    BY <2>1, <2>2
<1>10. CASE Tick
  BY <1>10 DEF TypeOK, RequestsInFlight, JobsInFlight, TriggersKnown, Tick
<1>11. CASE UNCHANGED vars
  BY <1>11 DEF TypeOK, RequestsInFlight, JobsInFlight, TriggersKnown, vars
<1>12. QED
  BY NextCases, <1>1, <1>2, <1>3, <1>4, <1>5, <1>6, <1>7, <1>8, <1>9, <1>10, <1>11

(* The stores, requests and jobs of TaskLifecycle keep their types in every *)
(* reachable state; requests and jobs in flight name tasks with a trigger.  *)
THEOREM TypeCorrect == Spec => [](TypeOK /\ InFlight)
<1>1. Init => TypeInv
  BY DEF Init, TypeInv, TypeOK, InFlight, RequestsInFlight, JobsInFlight, TriggersKnown, Exists, Absent, Row, Time, IdleRequest, RequestState,
         IdleJob, JobState
<1>2. TypeInv /\ [Next]_vars => TypeInv'
  BY TypeInvStep
<1>3. QED
  BY <1>1, <1>2, PTL DEF Spec, TypeInv

-----------------------------------------------------------------------------
(***************************************************************************)
(* The audit trail.  The inductive strengthening says what a request or job *)
(* in flight may still believe about its task: a pending create is the only *)
(* one for a task without history, everything else in flight concerns a     *)
(* task that has been created.                                              *)
(***************************************************************************)
CreatePending(r) ==
  /\ req[r].pc # "idle"
  /\ req[r].op = "create"
  /\ req[r].pc = "commit" \/ ~CommitFirst

RequestsKnown ==
  \A r \in Request : req[r].pc # "idle" =>
    /\ req[r].op = "run" <=> req[r].pc \in {"load", "firing"}
    /\ CreatePending(r) <=> history[req[r].task] = <<>>

CreatesDistinct ==
  \A r, s \in Request :
    CreatePending(r) /\ CreatePending(s) /\ req[r].task = req[s].task => r = s

JobsKnown ==
  \A j \in Job : job[j].pc \in {"firing", "remove"} => history[job[j].task] # <<>>

HistoryKnown ==
  \A t \in Task :
    /\ history[t] # <<>> => trigger[t] # NULL
    /\ history[t] = <<>> => ~Exists(t)

KnownInv == RequestsKnown /\ CreatesDistinct /\ JobsKnown /\ HistoryKnown

(***************************************************************************)
(* One audited change: an event e is appended to the history of t and the   *)
(* row of t changes as e says, all other rows staying as they are.  Every   *)
(* step of the system that touches table or history has this shape.         *)
(***************************************************************************)
AuditedStep(t, e) ==
  /\ UNCHANGED trigger
  /\ Append1(t, e)
  /\ row' \in [Task -> Row]
  /\ \A u \in Task \ {t} : row'[u] = row[u]
  /\ e = "task_created" <=> history[t] = <<>>
  /\ SetsStatus(t, e) => row'[t].status = StatusAfter(e)
  /\ ~SetsStatus(t, e) => row'[t] = row[t]
  /\ SetsStatus(t, e) /\ e \notin {"task_created", "task_deleted"} => Exists(t)

(* The commit of a request is an audited step: row and event are written    *)
(* together, and an UPDATE of a deleted row is never committed.             *)
LEMMA CommitAudited ==
  ASSUME TypeInv, KnownInv, TypeInv', NEW r \in Request, Commit(r)
  PROVE  AuditedStep(req[r].task, CommittedEvent(r))
<1> DEFINE t == req[r].task
           e == CommittedEvent(r)
<1>1. t \in Task /\ req[r].op \in {"create", "activate", "deactivate", "delete"}
  BY DEF TypeInv, InFlight, RequestsInFlight, KnownInv, RequestsKnown, Commit, Op
<1>2. row' = [row EXCEPT ![t] = CommittedRow(r)] /\ Append1(t, e) /\ UNCHANGED trigger
  BY DEF Commit
<1>3. row' \in [Task -> Row] /\ row'[t] = CommittedRow(r) /\ \A u \in Task \ {t} : row'[u] = row[u]
  BY <1>1, <1>2 DEF TypeInv, TypeOK
<1>4. e = "task_created" <=> history[t] = <<>>
  <2>1. e = "task_created" <=> req[r].op = "create"
    BY <1>1 DEF CommittedEvent
  <2>2. CreatePending(r) <=> history[t] = <<>>
    BY DEF KnownInv, RequestsKnown, Commit
  <2>3. CreatePending(r) <=> req[r].op = "create"
    BY DEF CreatePending, Commit
  <2>4. QED
    BY <2>1, <2>2, <2>3
<1>5. SetsStatus(t, e) /\ CommittedRow(r).status = StatusAfter(e)
  BY <1>1 DEF SetsStatus, LifecycleEvent, CommittedEvent, CommittedRow, StatusAfter, ActiveRow,
              InactiveRow, Absent
<1>6. e \notin {"task_created", "task_deleted"} => Exists(t)
  BY <1>1 DEF CommittedEvent, Commit, Stale
<1>7. QED
  BY <1>2, <1>3, <1>4, <1>5, <1>6 DEF AuditedStep

(* The end of a scheduled webhook call is an audited step: the success of a *)
(* once task deactivates a row that still exists, every other outcome only  *)
(* records.                                                                 *)
LEMMA JobAudited ==
  ASSUME TypeInv, KnownInv, TypeInv', NEW j \in Job, NEW e \in {"scheduled_ok", "scheduled_failed"},
         \/ RecordSuccess(j) /\ e = "scheduled_ok"
         \/ RecordFailure(j) /\ e = "scheduled_failed"
  PROVE  job[j].task \in Task /\ AuditedStep(job[j].task, e)
<1> DEFINE t == job[j].task
<1>1. t \in Task /\ history[t] # <<>> /\ job[j].pc = "firing"
  BY DEF TypeInv, InFlight, JobsInFlight, KnownInv, JobsKnown, RecordSuccess, RecordFailure
<1>2. row' \in [Task -> Row] /\ UNCHANGED trigger /\ Append1(t, e)
  BY DEF TypeInv, TypeOK, RecordSuccess, RecordFailure
<1>3. SetsStatus(t, e) <=> e = "scheduled_ok" /\ OneShot(t)
  BY DEF SetsStatus, LifecycleEvent
<1>4. CASE SetsStatus(t, e)
  <2>1. row' = [row EXCEPT ![t] = InactiveRow] /\ Exists(t)
    BY <1>3, <1>4 DEF RecordSuccess, RecordFailure
  <2>2. row'[t].status = "inactive" /\ \A u \in Task \ {t} : row'[u] = row[u]
    BY <1>1, <2>1 DEF TypeInv, TypeOK, InactiveRow
  <2>3. StatusAfter(e) = "inactive"
    BY <1>3, <1>4 DEF StatusAfter
  <2>4. QED
    BY <1>1, <1>2, <1>4, <2>1, <2>2, <2>3 DEF AuditedStep
<1>5. CASE ~SetsStatus(t, e)
  <2>1. row' = row
    BY <1>3, <1>5 DEF RecordSuccess, RecordFailure
  <2>2. QED
    BY <1>1, <1>2, <1>5, <2>1 DEF AuditedStep
<1>6. QED
  BY <1>1, <1>4, <1>5

(* The end of a manual run is an audited step, or its commit failed.        *)
LEMMA ManualRunAudited ==
  ASSUME TypeInv, KnownInv, TypeInv', NEW r \in Request, RecordManualRun(r)
  PROVE  /\ req[r].task \in Task
         /\ history[req[r].task] # <<>>
         /\ \/ UNCHANGED <<row, history>>
            \/ \E e \in {"manual_ok", "manual_failed"} : AuditedStep(req[r].task, e)
<1> DEFINE t == req[r].task
<1>1. t \in Task /\ req[r].pc = "firing"
  BY DEF TypeInv, InFlight, RequestsInFlight, RecordManualRun
<1>2. history[t] # <<>>
  <2>1. req[r].op = "run"
    BY <1>1 DEF KnownInv, RequestsKnown
  <2>2. ~CreatePending(r)
    BY <2>1 DEF CreatePending
  <2>3. QED
    BY <1>1, <2>2 DEF KnownInv, RequestsKnown
<1>3. row' = row /\ UNCHANGED trigger /\ row' \in [Task -> Row]
  BY DEF TypeInv, TypeOK, RecordManualRun
<1>4. ASSUME NEW e \in {"manual_ok", "manual_failed"}, Append1(t, e)
      PROVE  AuditedStep(t, e)
  BY <1>1, <1>2, <1>3, <1>4 DEF AuditedStep, SetsStatus, LifecycleEvent
<1>5. QED
  BY <1>1, <1>2, <1>3, <1>4 DEF RecordManualRun

(* Every step of the system leaves table and history alone or is audited.   *)
LEMMA StepIsAudited ==
  ASSUME TypeInv, KnownInv, [Next]_vars
  PROVE  UNCHANGED <<row, history>> \/ \E t \in Task, e \in Event : AuditedStep(t, e)
<1>0. TypeInv'
  BY TypeInvStep
<1>1. ASSUME NEW r \in Request, RequestStep(r)
      PROVE  UNCHANGED <<row, history>> \/ \E t \in Task, e \in Event : AuditedStep(t, e)
  <2>1. CASE Commit(r)
    <3>1. req[r].task \in Task /\ CommittedEvent(r) \in Event
      BY <2>1 DEF TypeInv, InFlight, RequestsInFlight, Commit, CommittedEvent, Event, LifecycleEvent
    <3>2. QED
      BY <1>0, <2>1, <3>1, CommitAudited
  <2>2. CASE RecordManualRun(r)
    BY <1>0, <2>2, ManualRunAudited DEF Event
  <2>3. CASE ~Commit(r) /\ ~RecordManualRun(r)
    BY <1>1, <2>3 DEF RequestStep, register_schedule, unregister_schedule, BackgroundFails, Rollback,
                      run_task_manually
  <2>4. QED
    BY <2>1, <2>2, <2>3
<1>2. ASSUME NEW j \in Job, JobStep(j)
      PROVE  UNCHANGED <<row, history>> \/ \E t \in Task, e \in Event : AuditedStep(t, e)
  <2>1. CASE RecordSuccess(j)
    BY <1>0, <2>1, JobAudited DEF Event
  <2>2. CASE RecordFailure(j)
    BY <1>0, <2>2, JobAudited DEF Event
  <2>3. CASE ~RecordSuccess(j) /\ ~RecordFailure(j)
    BY <1>2, <2>3 DEF JobStep, LoadTask, JobRollback, RemoveFiredSchedule
  <2>4. QED
    BY <2>1, <2>2, <2>3
<1>3. ASSUME NEW r \in Request, NEW t \in Task, NEW tr \in Trigger, create_task(r, t, tr)
      PROVE  UNCHANGED <<row, history>>
  BY <1>3 DEF create_task
<1>4. ASSUME NEW r \in Request, NEW t \in Task,
             activate_task(r, t) \/ deactivate_task(r, t) \/ delete_task(r, t) \/ run_task(r, t)
      PROVE  UNCHANGED <<row, history>>
  BY <1>4 DEF activate_task, deactivate_task, delete_task, run_task
<1>5. ASSUME NEW j \in Job, NEW t \in Task, Dispatch(j, t)
      PROVE  UNCHANGED <<row, history>>
  BY <1>5 DEF Dispatch
<1>6. CASE Crash \/ Tick \/ UNCHANGED vars
  BY <1>6 DEF Crash, Tick, vars
<1>7. QED
  BY <1>1, <1>2, <1>3, <1>4, <1>5, <1>6, NextCases

-----------------------------------------------------------------------------
(* What requests and jobs in flight know stays true: no request or job can  *)
(* slip in front of the commit of its task's create_task.                   *)
LEMMA KnownStep ==
  ASSUME TypeInv, KnownInv, [Next]_vars
  PROVE  KnownInv'
<1>0. TypeInv'
  BY TypeInvStep
<1>1. ASSUME NEW r \in Request, NEW t \in Task, NEW tr \in Trigger, create_task(r, t, tr)
      PROVE  KnownInv'
  <2>1. /\ trigger[t] = NULL /\ history[t] = <<>>
        /\ \A s \in Request : req[s].pc # "idle" => req[s].task # t
    BY <1>1 DEF create_task, TypeInv, InFlight, RequestsInFlight, KnownInv, HistoryKnown
  <2>2. /\ req'[r].pc # "idle" /\ req'[r].op = "create" /\ req'[r].task = t
        /\ req'[r].pc = "commit" \/ ~CommitFirst
        /\ req'[r].pc \notin {"load", "firing"}
    BY <1>1 DEF create_task, Defer, TypeInv, TypeOK
  <2>3. \A s \in Request \ {r} : req'[s] = req[s]
    BY <1>1 DEF create_task, Defer, TypeInv, TypeOK
  <2>4. UNCHANGED <<row, history, job>> /\ \A u \in Task \ {t} : trigger'[u] = trigger[u]
    BY <1>1 DEF create_task, TypeInv, TypeOK
  <2>5. CreatePending(r)' /\ \A s \in Request \ {r} : CreatePending(s)' <=> CreatePending(s)
    BY <2>2, <2>3 DEF CreatePending
  <2>6. RequestsKnown'
    BY <2>1, <2>2, <2>3, <2>4, <2>5 DEF KnownInv, RequestsKnown
  <2>7. CreatesDistinct'
    BY <2>1, <2>2, <2>3, <2>5 DEF KnownInv, CreatesDistinct, CreatePending
  <2>8. JobsKnown' /\ HistoryKnown'
    BY <2>1, <2>4 DEF KnownInv, JobsKnown, HistoryKnown, Exists
  <2>9. QED
    BY <2>6, <2>7, <2>8 DEF KnownInv
<1>2. ASSUME NEW r \in Request, NEW t \in Task,
             activate_task(r, t) \/ deactivate_task(r, t) \/ delete_task(r, t) \/ run_task(r, t)
      PROVE  KnownInv'
  <2>1. history[t] # <<>>
    BY <1>2 DEF activate_task, deactivate_task, delete_task, run_task, IsActive, Exists, KnownInv,
                HistoryKnown
  <2>2. /\ req'[r].op # "create" /\ req'[r].task = t
        /\ req'[r].op = "run" <=> req'[r].pc \in {"load", "firing"}
    BY <1>2 DEF activate_task, deactivate_task, delete_task, run_task, Defer, TypeInv, TypeOK
  <2>3. \A s \in Request \ {r} : req'[s] = req[s]
    BY <1>2 DEF activate_task, deactivate_task, delete_task, run_task, Defer, TypeInv, TypeOK
  <2>4. UNCHANGED <<row, history, job, trigger>>
    BY <1>2 DEF activate_task, deactivate_task, delete_task, run_task
  <2>5. ~CreatePending(r)' /\ \A s \in Request \ {r} : CreatePending(s)' <=> CreatePending(s)
    BY <2>2, <2>3 DEF CreatePending
  <2>6. RequestsKnown'
    BY <2>1, <2>2, <2>3, <2>4, <2>5 DEF KnownInv, RequestsKnown
  <2>7. CreatesDistinct'
    BY <2>3, <2>5 DEF KnownInv, CreatesDistinct
  <2>8. JobsKnown' /\ HistoryKnown'
    BY <2>4 DEF KnownInv, JobsKnown, HistoryKnown, Exists
  <2>9. QED
    BY <2>6, <2>7, <2>8 DEF KnownInv
<1>3. ASSUME NEW r \in Request, RequestStep(r)
      PROVE  KnownInv'
  <2> DEFINE t == req[r].task
  <2>1. /\ Progress(r)
        /\ req'[r].pc \in {"idle", "background", "commit", "firing"}
        /\ req'[r].pc = "background" => CommitFirst /\ Commit(r)
        /\ req'[r].pc = "commit" => ~CommitFirst /\ req[r].pc = "background"
        /\ req'[r].pc = "firing" => req[r].pc = "load"
    BY <1>3, RequestStepProgress DEF TypeInv
  <2>2. t \in Task /\ req[r].pc # "idle"
    BY <1>3 DEF RequestStep, register_schedule, unregister_schedule, BackgroundFails, Commit, Rollback,
                run_task_manually, RecordManualRun, TypeInv, InFlight, RequestsInFlight
  <2>3. \A s \in Request \ {r} : req'[s] = req[s] /\ (CreatePending(s)' <=> CreatePending(s))
    BY <2>1 DEF Progress, CreatePending
  <2>4. req'[r].pc # "idle" => req'[r].op = req[r].op /\ req'[r].task = t
    BY <2>1 DEF Progress, IdleRequest
  <2>5. CASE Commit(r)
    <3>1. AuditedStep(t, CommittedEvent(r))
      BY <1>0, <2>5, CommitAudited
    <3>2. history'[t] # <<>> /\ \A u \in Task \ {t} : history'[u] = history[u]
      <4>1. CommittedEvent(r) \in Event
        BY DEF CommittedEvent, Event, LifecycleEvent
      <4>2. QED
        BY <2>2, <3>1, <4>1, AppendEffect DEF AuditedStep, TypeInv
    <3>3. req'[r].pc = "idle" \/ (req'[r].pc = "background" /\ CommitFirst)
      BY <2>1, <2>5 DEF Commit
    <3>4. ~CreatePending(r)'
      BY <3>3 DEF CreatePending
    <3>5. \A s \in Request \ {r} : req[s].pc # "idle" /\ req[s].task = t => ~CreatePending(s)
      BY <2>2 DEF KnownInv, RequestsKnown, CreatesDistinct
    <3>6. req[r].op # "run"
      BY <2>2, <2>5 DEF KnownInv, RequestsKnown, Commit
    <3>7. \A s \in Request \ {r} : req[s].pc # "idle" => req[s].task \in Task
      BY DEF TypeInv, InFlight, RequestsInFlight
    <3>8. ASSUME NEW s \in Request, req'[s].pc # "idle"
          PROVE  /\ req'[s].op = "run" <=> req'[s].pc \in {"load", "firing"}
                 /\ CreatePending(s)' <=> history'[req'[s].task] = <<>>
      <4>1. CASE s = r
        BY <4>1, <3>8, <3>2, <3>3, <3>4, <3>6, <2>4
      <4>2. CASE s # r
        BY <4>2, <3>8, <3>2, <3>5, <3>7, <2>3 DEF KnownInv, RequestsKnown
      <4>3. QED
        BY <4>1, <4>2
    <3>9. RequestsKnown'
      BY <3>8 DEF RequestsKnown
    <3>10. CreatesDistinct'
      BY <2>3, <3>4 DEF KnownInv, CreatesDistinct
    <3>11. JobsKnown'
      BY <2>2, <2>5, <3>2 DEF Commit, KnownInv, JobsKnown, TypeInv, InFlight, JobsInFlight
    <3>12. HistoryKnown'
      <4>1. trigger[t] # NULL /\ UNCHANGED trigger
        BY <2>2, <3>1 DEF TypeInv, InFlight, RequestsInFlight, AuditedStep
      <4>2. QED
        BY <2>2, <3>1, <3>2, <4>1 DEF KnownInv, HistoryKnown, Exists, AuditedStep
    <3>13. QED
      BY <3>9, <3>10, <3>11, <3>12 DEF KnownInv
  <2>6. CASE ~Commit(r)
    <3>1. \A u \in Task : history'[u] = <<>> <=> history[u] = <<>>
      <4>1. CASE RecordManualRun(r)
        <5>1. t \in Task /\ history[t] # <<>>
          BY <1>0, <4>1, ManualRunAudited
        <5>2. CASE UNCHANGED history
          BY <5>2
        <5>3. CASE \E e \in {"manual_ok", "manual_failed"} : AuditedStep(t, e)
          BY <5>1, <5>3, AppendEffect DEF AuditedStep, TypeInv, Event
        <5>4. QED
          BY <1>0, <4>1, <5>2, <5>3, ManualRunAudited
      <4>2. CASE ~RecordManualRun(r)
        BY <1>3, <2>6, <4>2 DEF RequestStep, register_schedule, unregister_schedule, BackgroundFails,
                          Rollback, run_task_manually
      <4>3. QED
        BY <4>1, <4>2
    <3>2. UNCHANGED <<row, trigger, job>>
      BY <1>3, <2>6 DEF RequestStep, register_schedule, unregister_schedule, BackgroundFails, Rollback,
                        run_task_manually, RecordManualRun
    <3>3. req'[r].pc # "idle" => (CreatePending(r)' <=> CreatePending(r))
      BY <2>1, <2>4, <2>6 DEF CreatePending, KnownInv, RequestsKnown
    <3>4. req'[r].pc # "idle" => (req'[r].op = "run" <=> req'[r].pc \in {"load", "firing"})
      BY <2>1, <2>2, <2>4, <2>6 DEF KnownInv, RequestsKnown
    <3>5. req'[r].pc = "idle" => ~CreatePending(r)'
      BY DEF CreatePending
    <3>6. \A s \in Request : req[s].pc # "idle" => req[s].task \in Task
      BY DEF TypeInv, InFlight, RequestsInFlight
    <3>7. RequestsKnown'
      BY <2>2, <2>3, <2>4, <3>1, <3>3, <3>4, <3>6 DEF KnownInv, RequestsKnown
    <3>8. CreatesDistinct'
      BY <2>3, <2>4, <3>3, <3>5 DEF KnownInv, CreatesDistinct
    <3>9. JobsKnown'
      BY <3>1, <3>2 DEF KnownInv, JobsKnown, TypeInv, InFlight, JobsInFlight
    <3>10. HistoryKnown'
      BY <3>1, <3>2 DEF KnownInv, HistoryKnown, Exists
    <3>11. QED
      BY <3>7, <3>8, <3>9, <3>10 DEF KnownInv
  <2>7. QED
    BY <2>5, <2>6
<1>4. ASSUME NEW j \in Job, NEW t \in Task, Dispatch(j, t)
      PROVE  KnownInv'
  <2>1. UNCHANGED <<row, history, trigger, req>>
    BY <1>4 DEF Dispatch
  <2>2. JobsKnown'
    BY <1>4, <2>1 DEF Dispatch, KnownInv, JobsKnown, TypeInv, TypeOK
  <2>3. QED
    BY <2>1, <2>2 DEF KnownInv, RequestsKnown, CreatesDistinct, CreatePending, HistoryKnown, Exists
<1>5. ASSUME NEW j \in Job, JobStep(j)
      PROVE  KnownInv'
  <2>1. /\ JobProgress(j)
        /\ job'[j].pc = "firing" => IsActive(job[j].task)
        /\ job'[j].pc = "remove" => job[j].pc = "firing"
    BY <1>5, JobStepProgress DEF TypeInv
  <2>2. job[j].task \in Task /\ trigger[job[j].task] # NULL /\ job[j].pc # "idle"
    BY <1>5 DEF JobStep, LoadTask, RecordFailure, RecordSuccess, JobRollback, RemoveFiredSchedule,
                TypeInv, InFlight, JobsInFlight
  <2>3. UNCHANGED <<trigger, req>>
    BY <1>5 DEF JobStep, LoadTask, RecordFailure, RecordSuccess, JobRollback, RemoveFiredSchedule
  <2>4. \A u \in Task : /\ history'[u] = <<>> <=> history[u] = <<>>
                        /\ history[u] = <<>> => row'[u] = row[u]
    <3>1. CASE RecordSuccess(j) \/ RecordFailure(j)
      <4>1. history[job[j].task] # <<>>
        BY <3>1 DEF RecordSuccess, RecordFailure, KnownInv, JobsKnown
      <4>2. PICK e \in {"scheduled_ok", "scheduled_failed"} : AuditedStep(job[j].task, e)
        BY <1>0, <3>1, JobAudited
      <4>3. QED
        BY <2>2, <4>1, <4>2, AppendEffect DEF AuditedStep, TypeInv, Event
    <3>2. CASE ~(RecordSuccess(j) \/ RecordFailure(j))
      BY <1>5, <3>2 DEF JobStep, LoadTask, JobRollback, RemoveFiredSchedule
    <3>3. QED
      BY <3>1, <3>2
  <2>5. JobsKnown'
    <3> SUFFICES ASSUME NEW k \in Job, job'[k].pc \in {"firing", "remove"}
                 PROVE  history'[job'[k].task] # <<>>
      BY DEF JobsKnown
    <3>1. CASE k # j
      BY <3>1, <2>1, <2>4 DEF JobProgress, KnownInv, JobsKnown, TypeInv, InFlight, JobsInFlight
    <3>2. CASE k = j
      <4>1. job'[j].task = job[j].task
        BY <3>2, <2>1 DEF JobProgress, IdleJob
      <4>2. history[job[j].task] # <<>>
        BY <3>2, <2>1, <2>2 DEF IsActive, Exists, KnownInv, JobsKnown, HistoryKnown
      <4>3. QED
        BY <3>2, <4>1, <4>2, <2>2, <2>4
    <3>3. QED
      BY <3>1, <3>2
  <2>6. RequestsKnown'
    BY <2>3, <2>4 DEF KnownInv, RequestsKnown, CreatePending, TypeInv, InFlight, RequestsInFlight
  <2>7. CreatesDistinct' /\ HistoryKnown'
    BY <2>3, <2>4 DEF KnownInv, CreatesDistinct, CreatePending, HistoryKnown, Exists
  <2>8. QED
    BY <2>5, <2>6, <2>7 DEF KnownInv
<1>6. CASE Crash
  BY <1>6 DEF Crash, KnownInv, RequestsKnown, CreatesDistinct, CreatePending, JobsKnown, HistoryKnown,
              Exists, IdleRequest, IdleJob
<1>7. CASE Tick \/ UNCHANGED vars
  BY <1>7 DEF Tick, vars, KnownInv, RequestsKnown, CreatesDistinct, CreatePending, JobsKnown,
              HistoryKnown, Exists
<1>8. QED
  BY <1>1, <1>2, <1>3, <1>4, <1>5, <1>6, <1>7, NextCases

(* The trigger of a task never changes once create_task has set it.         *)
LEMMA TriggerStable ==
  ASSUME TypeInv, [Next]_vars
  PROVE  \A t \in Task : trigger[t] # NULL => trigger'[t] = trigger[t]
<1>1. ASSUME NEW r \in Request, NEW t \in Task, NEW tr \in Trigger, create_task(r, t, tr)
      PROVE  \A u \in Task : trigger[u] # NULL => trigger'[u] = trigger[u]
  BY <1>1 DEF create_task, TypeInv, TypeOK
<1>2. ASSUME NEW r \in Request, NEW t \in Task,
             activate_task(r, t) \/ deactivate_task(r, t) \/ delete_task(r, t) \/ run_task(r, t)
      PROVE  UNCHANGED trigger
  BY <1>2 DEF activate_task, deactivate_task, delete_task, run_task
<1>3. ASSUME NEW r \in Request, RequestStep(r)
      PROVE  UNCHANGED trigger
  BY <1>3 DEF RequestStep, register_schedule, unregister_schedule, BackgroundFails, Commit, Rollback,
              run_task_manually, RecordManualRun
<1>4. ASSUME NEW j \in Job, NEW t \in Task, Dispatch(j, t)
      PROVE  UNCHANGED trigger
  BY <1>4 DEF Dispatch
<1>5. ASSUME NEW j \in Job, JobStep(j)
      PROVE  UNCHANGED trigger
  BY <1>5 DEF JobStep, LoadTask, RecordFailure, RecordSuccess, JobRollback, RemoveFiredSchedule
<1>6. CASE Crash \/ Tick \/ UNCHANGED vars
  BY <1>6 DEF Crash, Tick, vars
<1>7. QED
  BY <1>1, <1>2, <1>3, <1>4, <1>5, <1>6, NextCases

AuditInv == AuditReplay /\ CreatedFirstAndOnce /\ DeletedForGood

(* A step that leaves table and history alone keeps the audit invariants:   *)
(* the trigger it may set is that of a task without history.                *)
LEMMA UntouchedKeepsAudit ==
  ASSUME TypeInv, KnownInv, AuditInv, [Next]_vars, UNCHANGED <<row, history>>
  PROVE  AuditInv'
<1>1. \A t \in Task : history[t] # <<>> => \A e : SetsStatus(t, e)' <=> SetsStatus(t, e)
  BY TriggerStable DEF KnownInv, HistoryKnown, SetsStatus, OneShot
<1>2. \A t \in Task : history[t] = <<>> => DOMAIN history[t] = {}
  OBVIOUS
<1>3. \A t \in Task : \A i \in DOMAIN history[t] : \A e : SetsStatus(t, e)' <=> SetsStatus(t, e)
  BY <1>1, <1>2
<1>4. AuditReplay'
  BY <1>3 DEF AuditInv, AuditReplay, Exists
<1>5. CreatedFirstAndOnce'
  BY DEF AuditInv, CreatedFirstAndOnce
<1>6. DeletedForGood'
  BY <1>3 DEF AuditInv, DeletedForGood, Exists
<1>7. QED
  BY <1>4, <1>5, <1>6 DEF AuditInv

(* An audited step keeps the audit invariants. *)
LEMMA AuditedKeepsAudit ==
  ASSUME TypeInv, KnownInv, AuditInv, NEW t \in Task, NEW e \in Event, AuditedStep(t, e)
  PROVE  AuditInv'
<1> DEFINE h == history[t]
           n == Len(history[t])
<1>1. /\ h \in Seq(Event) /\ n \in Nat /\ DOMAIN h = 1 .. n
      /\ h = <<>> <=> n = 0
  BY DEF TypeInv, TypeOK
<1>2. /\ history'[t] = Append(h, e)
      /\ \A u \in Task \ {t} : history'[u] = history[u] /\ row'[u] = row[u]
  BY AppendEffect DEF AuditedStep, TypeInv
<1>3. /\ DOMAIN history'[t] = 1 .. (n + 1)
      /\ history'[t][n + 1] = e
      /\ \A i \in 1 .. n : history'[t][i] = h[i]
      /\ history'[t] # <<>>
  BY <1>1, <1>2
<1>4. \A u, x : SetsStatus(u, x)' <=> SetsStatus(u, x)
  BY DEF AuditedStep, SetsStatus, OneShot
<1>5. AuditReplay'
  <2>1. ASSUME NEW i \in DOMAIN history'[t], SetsStatus(t, history'[t][i]),
               \A k \in DOMAIN history'[t] : k > i => ~SetsStatus(t, history'[t][k])
        PROVE  row'[t].status = StatusAfter(history'[t][i])
    <3>1. CASE i = n + 1
      BY <1>3, <2>1, <3>1 DEF AuditedStep
    <3>2. CASE i # n + 1
      <4>1. i \in 1 .. n /\ n + 1 > i /\ n + 1 \in DOMAIN history'[t]
        BY <1>1, <1>3, <2>1, <3>2
      <4>2. ~SetsStatus(t, e)
        BY <1>3, <2>1, <4>1
      <4>3. \A k \in 1 .. n : k > i => ~SetsStatus(t, h[k])
        BY <1>1, <1>3, <2>1
      <4>4. row[t].status = StatusAfter(h[i])
        BY <1>1, <1>3, <2>1, <4>1, <4>3 DEF AuditInv, AuditReplay
      <4>5. QED
        BY <1>3, <4>1, <4>2, <4>4 DEF AuditedStep
    <3>3. QED
      BY <3>1, <3>2
  <2>2. ASSUME NEW u \in Task \ {t}
        PROVE  /\ history'[u] = <<>> => row'[u].status = "absent"
               /\ \A i \in DOMAIN history'[u] :
                    /\ SetsStatus(u, history'[u][i])
                    /\ \A k \in DOMAIN history'[u] : k > i => ~SetsStatus(u, history'[u][k])
                    => row'[u].status = StatusAfter(history'[u][i])
    <3>1. history'[u] = history[u] /\ row'[u] = row[u]
      BY <1>2
    <3>2. QED
      BY <3>1 DEF AuditInv, AuditReplay, Exists
  <2>3. ASSUME NEW u \in Task
        PROVE  /\ history'[u] = <<>> => row'[u].status = "absent"
               /\ \A i \in DOMAIN history'[u] :
                    /\ SetsStatus(u, history'[u][i])
                    /\ \A k \in DOMAIN history'[u] : k > i => ~SetsStatus(u, history'[u][k])
                    => row'[u].status = StatusAfter(history'[u][i])
    BY <1>3, <2>1, <2>2
  <2>4. QED
    BY <1>4, <2>3 DEF AuditReplay, Exists
<1>6. CreatedFirstAndOnce'
  <2>1. e = "task_created" <=> n + 1 = 1
    BY <1>1 DEF AuditedStep
  <2>2. \A i \in DOMAIN history'[t] : history'[t][i] = "task_created" <=> i = 1
    BY <1>1, <1>3, <2>1 DEF AuditInv, CreatedFirstAndOnce
  <2>3. QED
    BY <1>2, <2>2 DEF AuditInv, CreatedFirstAndOnce
<1>7. DeletedForGood'
  <2>1. ASSUME NEW i \in 1 .. n, h[i] = "task_deleted"
        PROVE  /\ ~Exists(t)
               /\ e = "task_deleted" \/ ~SetsStatus(t, e)
    <3>1. ~Exists(t)
      BY <1>1, <2>1 DEF AuditInv, DeletedForGood
    <3>2. e # "task_created"
      BY <1>1 DEF AuditedStep
    <3>3. QED
      BY <3>1, <3>2 DEF AuditedStep
  <2>2. e = "task_deleted" => row'[t].status = "absent"
    BY DEF AuditedStep, SetsStatus, LifecycleEvent, StatusAfter
  <2>3. ~SetsStatus(t, e) => row'[t].status = row[t].status
    BY DEF AuditedStep
  <2>4. ASSUME NEW i \in DOMAIN history'[t], history'[t][i] = "task_deleted"
        PROVE  /\ row'[t].status = "absent"
               /\ \A k \in DOMAIN history'[t] :
                    k > i => \/ history'[t][k] = "task_deleted"
                             \/ ~SetsStatus(t, history'[t][k])
    <3>1. CASE i = n + 1
      BY <1>1, <1>3, <2>2, <2>4, <3>1
    <3>2. CASE i # n + 1
      <4>1. i \in 1 .. n /\ h[i] = "task_deleted"
        BY <1>1, <1>3, <2>4, <3>2
      <4>2. ~Exists(t) /\ (e = "task_deleted" \/ ~SetsStatus(t, e))
        BY <2>1, <4>1
      <4>3. \A k \in 1 .. n : k > i => h[k] = "task_deleted" \/ ~SetsStatus(t, h[k])
        BY <1>1, <4>1 DEF AuditInv, DeletedForGood
      <4>4. row'[t].status = "absent"
        BY <4>2, <2>2, <2>3 DEF Exists
      <4>5. QED
        BY <1>1, <1>3, <4>2, <4>3, <4>4
    <3>3. QED
      BY <3>1, <3>2
  <2>5. QED
    BY <1>2, <1>4, <2>4 DEF AuditInv, DeletedForGood, Exists
<1>8. QED
  BY <1>5, <1>6, <1>7 DEF AuditInv

(* The invariant the audit theorems share is inductive. *)
LEMMA AuditInductive == Spec => [](TypeInv /\ KnownInv /\ AuditInv)
<1>1. Init => TypeInv
  BY DEF Init, TypeInv, TypeOK, InFlight, RequestsInFlight, JobsInFlight, TriggersKnown, Exists,
         Absent, Row, Time, IdleRequest, RequestState, IdleJob, JobState
<1>2. Init => KnownInv
  BY DEF Init, KnownInv, RequestsKnown, CreatesDistinct, CreatePending, JobsKnown, HistoryKnown,
         Exists, Absent, IdleRequest, IdleJob
<1>3. Init => AuditInv
  BY DEF Init, AuditInv, AuditReplay, CreatedFirstAndOnce, DeletedForGood, Exists, Absent
<1>4. TypeInv /\ KnownInv /\ AuditInv /\ [Next]_vars => (TypeInv /\ KnownInv /\ AuditInv)'
  BY TypeInvStep, KnownStep, StepIsAudited, UntouchedKeepsAudit, AuditedKeepsAudit
<1>5. QED
  BY <1>1, <1>2, <1>3, <1>4, PTL DEF Spec

(* The audit trail explains the table in every reachable state: whatever    *)
(* handlers, deferred commits, jobs, crashes and failing calls interleave,  *)
(* the status of each scheduled_tasks row is the one its task_history says. *)
THEOREM AuditTrailExplainsTable == Spec => []AuditReplay
BY AuditInductive, PTL DEF AuditInv

(* No history starts with, or has a second, creation: see create_task.      *)
THEOREM CreationIsFirst == Spec => []CreatedFirstAndOnce
BY AuditInductive, PTL DEF AuditInv

(* delete_task is final, whatever was in flight when it committed.          *)
THEOREM DeletionIsFinal == Spec => []DeletedForGood
BY AuditInductive, PTL DEF AuditInv

-----------------------------------------------------------------------------
(* Refinement of TaskAudit. *)

(* The abstract variables after a step, through the refinement mapping. *)
LEMMA AuditedImplements ==
  ASSUME TypeInv, KnownInv, NEW t \in Task, NEW e \in Event, AuditedStep(t, e)
  PROVE  Audit!AuditNext
<1> DEFINE st == [u \in Task |-> row[u].status]
           on == [u \in Task |-> history[u] # <<>> /\ OneShot(u)]
<1>1. /\ history' = [history EXCEPT ![t] = Append(@, e)]
      /\ history'[t] # <<>>
      /\ \A u \in Task \ {t} : history'[u] = history[u]
  BY AppendEffect DEF AuditedStep, Append1, TypeInv
<1>2. st' = [st EXCEPT ![t] = row'[t].status]
  BY DEF AuditedStep
<1>3. \A u \in Task : OneShot(u)' = OneShot(u) /\ OneShot(u) \in BOOLEAN
  BY DEF AuditedStep, OneShot, IsOnce
<1>4. on' = [on EXCEPT ![t] = OneShot(t)]
  <2>1. \A u \in Task \ {t} : (history'[u] # <<>> /\ OneShot(u)') = (history[u] # <<>> /\ OneShot(u))
    BY <1>1, <1>3
  <2>2. (history'[t] # <<>> /\ OneShot(t)') = OneShot(t)
    BY <1>1, <1>3
  <2>3. on' = [u \in Task |-> IF u = t THEN OneShot(t) ELSE history[u] # <<>> /\ OneShot(u)]
    BY <2>1, <2>2
  <2>4. QED
    BY <2>3
<1>5. CASE e = "task_created"
  <2>1. history[t] = <<>> /\ row'[t].status = "active"
    BY <1>5 DEF AuditedStep, SetsStatus, LifecycleEvent, StatusAfter
  <2>2. OneShot(t) \in BOOLEAN
    BY DEF OneShot, IsOnce
  <2>3. Audit!Create(t)
    BY <1>1, <1>2, <1>4, <1>5, <2>1, <2>2 DEF Audit!Create, Audit!Known, Audit!Record
  <2>4. QED
    BY <2>3 DEF Audit!AuditNext
<1>6. CASE e # "task_created"
  <2>1. history[t] # <<>>
    BY <1>6 DEF AuditedStep
  <2>2. on' = on
    BY <1>4, <2>1
  <2>3. CASE e \in {"task_activated", "task_deactivated"}
    <3>1. SetsStatus(t, e) /\ row[t].status # "absent"
      BY <2>3 DEF AuditedStep, SetsStatus, LifecycleEvent, Exists
    <3>2. row'[t].status = IF e = "task_activated" THEN "active" ELSE "inactive"
      BY <2>3, <3>1 DEF AuditedStep, StatusAfter
    <3>3. Audit!SetActive(t)
      BY <1>1, <1>2, <2>2, <2>3, <3>1, <3>2 DEF Audit!SetActive, Audit!Record
    <3>4. QED
      BY <3>3 DEF Audit!AuditNext
  <2>4. CASE e = "task_deleted"
    <3>1. row'[t].status = "absent"
      BY <2>4 DEF AuditedStep, SetsStatus, LifecycleEvent, StatusAfter
    <3>2. Audit!Remove(t)
      BY <1>1, <1>2, <2>1, <2>2, <2>4, <3>1 DEF Audit!Remove, Audit!Record, Audit!Known
    <3>3. QED
      BY <3>2 DEF Audit!AuditNext
  <2>5. CASE e = "scheduled_ok" /\ OneShot(t)
    <3>1. row'[t].status = "inactive" /\ row[t].status # "absent"
      BY <2>5 DEF AuditedStep, SetsStatus, StatusAfter, Exists
    <3>2. Audit!Execute(t)
      BY <1>1, <1>2, <2>1, <2>2, <2>5, <3>1 DEF Audit!Execute, Audit!Record, Audit!Known
    <3>3. QED
      BY <3>2 DEF Audit!AuditNext
  <2>6. CASE \/ e = "scheduled_ok" /\ ~OneShot(t)
             \/ e \in {"scheduled_failed", "manual_ok", "manual_failed"}
    <3>1. row'[t].status = row[t].status
      BY <2>6 DEF AuditedStep, SetsStatus, LifecycleEvent
    <3>2. Audit!Execute(t)
      BY <1>1, <1>2, <2>1, <2>2, <2>6, <3>1 DEF Audit!Execute, Audit!Record, Audit!Known
    <3>3. QED
      BY <3>2 DEF Audit!AuditNext
  <2>7. QED
    BY <1>6, <2>3, <2>4, <2>5, <2>6 DEF Event, LifecycleEvent
<1>7. QED
  BY <1>5, <1>6

(* The table and history of TaskLifecycle implement TaskAudit: every        *)
(* handler, background task, commit, job step, crash and failure is one     *)
(* audited change of one task or invisible at that level.                   *)
THEOREM LifecycleImplementsAudit == Spec => ImplementsAudit
<1>1. Init => Audit!AuditInit
  <2> SUFFICES ASSUME Init
               PROVE  Audit!AuditInit
    OBVIOUS
  <2>1. [t \in Task |-> row[t].status] = [t \in Task |-> "absent"]
    BY DEF Init, Absent
  <2>2. \A t \in Task : (history[t] # <<>> /\ OneShot(t)) = FALSE
    BY DEF Init
  <2>3. [t \in Task |-> history[t] # <<>> /\ OneShot(t)] = [t \in Task |-> FALSE]
    BY <2>2
  <2>4. history = [t \in Task |-> <<>>]
    BY DEF Init
  <2>5. QED
    BY <2>1, <2>3, <2>4 DEF Audit!AuditInit
<1>2. TypeInv /\ KnownInv /\ [Next]_vars => [Audit!AuditNext]_(Audit!audit)
  <2> SUFFICES ASSUME TypeInv, KnownInv, [Next]_vars
               PROVE  [Audit!AuditNext]_(Audit!audit)
    OBVIOUS
  <2>1. CASE UNCHANGED <<row, history>>
    <3>1. \A t \in Task : history[t] # <<>> => OneShot(t)' = OneShot(t)
      BY TriggerStable DEF KnownInv, HistoryKnown, OneShot
    <3>2. [t \in Task |-> history[t] # <<>> /\ OneShot(t)]'
            = [t \in Task |-> history[t] # <<>> /\ OneShot(t)]
      BY <2>1, <3>1
    <3>3. QED
      BY <2>1, <3>2 DEF Audit!audit
  <2>2. CASE \E t \in Task, e \in Event : AuditedStep(t, e)
    BY <2>2, AuditedImplements
  <2>3. QED
    BY <2>1, <2>2, StepIsAudited
<1>3. QED
  BY <1>1, <1>2, AuditInductive, PTL DEF Spec, ImplementsAudit, Audit!AuditSpec

-----------------------------------------------------------------------------
(* next_run_at and is_active. *)

(* What a request that will activate a row is going to write. *)
NextKnown ==
  \A r \in Request :
    req[r].pc # "idle" /\ req[r].op \in {"create", "activate"}
      => (req[r].next # NULL <=> Satisfiable(trigger[req[r].task]))

NextInv == NextKnown /\ NextRunMatchesStatus

(* next_run_at stays set exactly in the rows and requests that will fire. *)
LEMMA NextInvStep ==
  ASSUME TypeInv, KnownInv, NextInv, [Next]_vars
  PROVE  NextInv'
<1>0. /\ TypeInv'
      /\ \A t \in Task : trigger[t] # NULL => trigger'[t] = trigger[t]
  BY TypeInvStep, TriggerStable
<1>1. ASSUME UNCHANGED row
      PROVE  NextRunMatchesStatus'
  <2>1. \A t \in Task : IsActive(t) => trigger'[t] = trigger[t]
    BY <1>0 DEF TypeInv, InFlight, TriggersKnown, IsActive, Exists
  <2>2. QED
    BY <1>1, <2>1 DEF NextInv, NextRunMatchesStatus, IsActive
<1>2. ASSUME UNCHANGED req
      PROVE  NextKnown'
  BY <1>0, <1>2 DEF NextInv, NextKnown, TypeInv, InFlight, RequestsInFlight
<1>3. ASSUME NEW r \in Request, NEW t \in Task, NEW tr \in Trigger, create_task(r, t, tr)
      PROVE  NextInv'
  <2>1. compute_next_run_at(tr, now) # NULL <=> Satisfiable(tr)
    BY NextRunAtType, TriggerAssumption DEF TypeInv, TypeOK
  <2>2. /\ req'[r].next = compute_next_run_at(tr, now) /\ req'[r].task = t /\ trigger'[t] = tr
        /\ \A s \in Request \ {r} : req'[s] = req[s]
    BY <1>3 DEF create_task, Defer, TypeInv, TypeOK
  <2>3. \A s \in Request \ {r} : req[s].pc # "idle" => trigger'[req[s].task] = trigger[req[s].task]
    BY <1>0 DEF TypeInv, InFlight, RequestsInFlight
  <2>4. NextKnown'
    BY <2>1, <2>2, <2>3 DEF NextInv, NextKnown
  <2>5. QED
    BY <1>1, <1>3, <2>4 DEF NextInv, create_task
<1>4. ASSUME NEW r \in Request, NEW t \in Task,
             activate_task(r, t) \/ deactivate_task(r, t) \/ delete_task(r, t) \/ run_task(r, t)
      PROVE  NextInv'
  <2>1. UNCHANGED <<row, trigger>> /\ \A s \in Request \ {r} : req'[s] = req[s]
    BY <1>4 DEF activate_task, deactivate_task, delete_task, run_task, Defer, TypeInv, TypeOK
  <2>2. req'[r].op \in {"create", "activate"} =>
          req'[r].next # NULL /\ req'[r].task = t
          /\ req'[r].next = compute_next_run_at(trigger[t], now) /\ trigger[t] # NULL
    BY <1>4 DEF activate_task, deactivate_task, delete_task, run_task, Defer, CanActivate, TypeInv,
                TypeOK, InFlight, TriggersKnown, Exists
  <2>3. trigger[t] # NULL => (compute_next_run_at(trigger[t], now) # NULL <=> Satisfiable(trigger[t]))
    BY NextRunAtType, TriggerAssumption DEF TypeInv, TypeOK
  <2>4. NextKnown'
    BY <2>1, <2>2, <2>3 DEF NextInv, NextKnown
  <2>5. QED
    BY <1>1, <2>1, <2>4 DEF NextInv
<1>5. ASSUME NEW r \in Request, RequestStep(r)
      PROVE  NextInv'
  <2>1. Progress(r) /\ UNCHANGED trigger
    BY <1>5, RequestStepProgress DEF TypeInv, RequestStep, register_schedule, unregister_schedule,
              BackgroundFails, Commit, Rollback, run_task_manually, RecordManualRun
  <2>2. NextKnown'
    <3> SUFFICES ASSUME NEW s \in Request, req'[s].pc # "idle", req'[s].op \in {"create", "activate"}
                 PROVE  req'[s].next # NULL <=> Satisfiable(trigger[req'[s].task])
      BY <2>1 DEF NextKnown
    <3>1. CASE s # r
      BY <2>1, <3>1 DEF Progress, NextInv, NextKnown
    <3>2. CASE s = r
      BY <2>1, <3>2 DEF Progress, IdleRequest, NextInv, NextKnown
    <3>3. QED
      BY <3>1, <3>2
  <2>3. CASE Commit(r)
    <3>1. req[r].task \in Task /\ req[r].pc # "idle"
      BY <2>3 DEF Commit, TypeInv, InFlight, RequestsInFlight
    <3>2. row' = [row EXCEPT ![req[r].task] = CommittedRow(r)]
      BY <2>3 DEF Commit
    <3>3. CommittedRow(r).next_run_at # NULL
            <=> CommittedRow(r).status = "active" /\ Satisfiable(trigger[req[r].task])
      BY <3>1 DEF CommittedRow, ActiveRow, InactiveRow, Absent, NextInv, NextKnown
    <3>4. NextRunMatchesStatus'
      BY <2>1, <3>1, <3>2, <3>3 DEF NextInv, NextRunMatchesStatus, IsActive, TypeInv, TypeOK
    <3>5. QED
      BY <2>2, <3>4 DEF NextInv
  <2>4. CASE ~Commit(r)
    <3>1. UNCHANGED row
      BY <1>5, <2>4 DEF RequestStep, register_schedule, unregister_schedule, BackgroundFails, Rollback,
                        run_task_manually, RecordManualRun
    <3>2. QED
      BY <1>1, <2>2, <3>1 DEF NextInv
  <2>5. QED
    BY <2>3, <2>4
<1>6. ASSUME NEW j \in Job, JobStep(j)
      PROVE  NextInv'
  <2>1. UNCHANGED <<req, trigger>> /\ job[j].task \in Task
        /\ (row' = row \/ row' = [row EXCEPT ![job[j].task] = InactiveRow])
    BY <1>6 DEF JobStep, LoadTask, RecordFailure, RecordSuccess, JobRollback, RemoveFiredSchedule,
                TypeInv, InFlight, JobsInFlight
  <2>2. CASE row' = row
    BY <1>1, <1>2, <2>1, <2>2 DEF NextInv
  <2>3. CASE row' = [row EXCEPT ![job[j].task] = InactiveRow]
    <3>1. /\ row'[job[j].task].next_run_at = NULL /\ row'[job[j].task].status = "inactive"
          /\ \A t \in Task \ {job[j].task} : row'[t] = row[t]
      BY <2>1, <2>3 DEF InactiveRow, TypeInv, TypeOK
    <3>2. NextRunMatchesStatus'
      BY <2>1, <3>1 DEF NextInv, NextRunMatchesStatus, IsActive
    <3>3. QED
      BY <1>2, <2>1, <3>2 DEF NextInv
  <2>4. QED
    BY <2>1, <2>2, <2>3
<1>7. ASSUME NEW j \in Job, NEW t \in Task, Dispatch(j, t)
      PROVE  NextInv'
  BY <1>1, <1>2, <1>7 DEF Dispatch, NextInv
<1>8. CASE Crash
  <2>1. NextKnown'
    BY <1>8 DEF Crash, NextKnown, IdleRequest
  <2>2. QED
    BY <1>1, <1>8, <2>1 DEF Crash, NextInv
<1>9. CASE Tick \/ UNCHANGED vars
  BY <1>1, <1>2, <1>9 DEF Tick, vars, NextInv
<1>10. QED
  BY <1>3, <1>4, <1>5, <1>6, <1>7, <1>8, <1>9, NextCases

(* In every reachable state next_run_at is set exactly in active rows with  *)
(* a trigger that ever fires, although create_task, activate_task,          *)
(* deactivate_task and execute_scheduled_task write the columns blindly     *)
(* from rows they read earlier.                                             *)
THEOREM NextRunAtAgreesWithStatus == Spec => []NextRunMatchesStatus
<1>1. Init => NextInv
  BY DEF Init, NextInv, NextKnown, NextRunMatchesStatus, IsActive, Absent, IdleRequest
<1>2. TypeInv /\ KnownInv /\ NextInv /\ [Next]_vars => NextInv'
  BY NextInvStep
<1>3. QED
  BY <1>1, <1>2, AuditInductive, PTL DEF Spec, NextInv
=============================================================================
