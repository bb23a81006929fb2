--------------------------- MODULE TaskLifecycle ----------------------------
(***************************************************************************)
(* The life of scheduled tasks: the HTTP handlers of app/routes/tasks.py,   *)
(* the request transaction of app/db/dependencies.py, the calls into the    *)
(* scheduler of app/scheduler/service.py and the scheduled job of           *)
(* app/scheduler/executor.py, over three stores that no transaction spans:  *)
(*   row     - the scheduled_tasks table,                                   *)
(*   history - the append-only task_history table,                          *)
(*   sched   - APScheduler's own schedules (external library).              *)
(*                                                                          *)
(* A request is a handler followed by two deferred steps: the background    *)
(* task that adds or removes the schedule, and the commit of the request's  *)
(* session when the get_db dependency is torn down.  CommitFirst says which *)
(* comes first: FALSE is the order of the FastAPI release the lock file     *)
(* pins (the response, with its background tasks, is finished before yield  *)
(* dependencies are exited), TRUE that of a dependency exited before the    *)
(* response is sent.  The safety theorems hold for both.                    *)
(***************************************************************************)
EXTENDS Triggers, Sequences, FiniteSets

CONSTANTS
  Task,         \* task ids, each drawn by uuid4() at most once
  Request,      \* slots for HTTP requests in flight
  Job,          \* slots for APScheduler jobs in flight
  Trigger,      \* the triggers clients ask for
  CommitFirst,  \* order of commit and background task
  Faults,       \* which failures are injected
  MaxNow,       \* bound on the clock
  MaxEvents     \* bound: no new request on a task with that many events

ASSUME TriggerAssumption == Trigger \subseteq TriggerSpec
ASSUME OrderAssumption == CommitFirst \in BOOLEAN
ASSUME FaultsAssumption == Faults \subseteq {"scheduler", "commit", "crash"}
ASSUME BoundAssumption == MaxNow \in Nat /\ MaxEvents \in Nat
ASSUME NullIsNoTask == NULL \notin Task /\ NULL \notin TriggerSpec

VARIABLES
  now,      \* the wall clock
  trigger,  \* [Task -> trigger or NULL]: trigger_type and trigger_config
  row,      \* [Task -> committed row]
  sched,    \* [Task -> next fire time of its schedule, NULL if none]
  history,  \* [Task -> sequence of committed events]
  req,      \* [Request -> request in flight]
  job       \* [Job -> job in flight]

vars == <<now, trigger, row, sched, history, req, job>>

LifecycleEvent == {"task_created", "task_activated", "task_deactivated", "task_deleted"}
Event == LifecycleEvent \cup {"scheduled_ok", "scheduled_failed", "manual_ok", "manual_failed"}

Time == Nat \cup {NULL}

(* is_active, or no row at all *)
Row == [status : {"absent", "active", "inactive"}, next_run_at : Time]
Absent == [status |-> "absent", next_run_at |-> NULL]
ActiveRow(next) == [status |-> "active", next_run_at |-> next]
InactiveRow == [status |-> "inactive", next_run_at |-> NULL]

(* A request: op is the handler that ran, bg the background task it added,  *)
(* next the next_run_at it is about to write.                               *)
Op == {"create", "activate", "deactivate", "delete", "run"}
RequestState ==
  [pc : {"idle", "background", "commit", "load", "firing"}, op : Op \cup {NULL},
   task : Task \cup {NULL}, bg : {"none", "register", "unregister"}, next : Time]
IdleRequest == [pc |-> "idle", op |-> NULL, task |-> NULL, bg |-> "none", next |-> NULL]

JobState == [pc : {"idle", "queued", "firing", "remove"}, task : Task \cup {NULL}]
IdleJob == [pc |-> "idle", task |-> NULL]

Exists(t) == row[t].status # "absent"
IsActive(t) == row[t].status = "active"
OneShot(t) == trigger[t] # NULL /\ IsOnce(trigger[t])

Append1(t, e) == history' = [history EXCEPT ![t] = Append(@, e)]

-----------------------------------------------------------------------------
Init ==
  /\ now = 0
  /\ trigger = [t \in Task |-> NULL]
  /\ row = [t \in Task |-> Absent]
  /\ sched = [t \in Task |-> NULL]
  /\ history = [t \in Task |-> <<>>]
  /\ req = [r \in Request |-> IdleRequest]
  /\ job = [j \in Job |-> IdleJob]

-----------------------------------------------------------------------------
(* HTTP handlers.  Each reads the committed row and leaves its writes       *)
(* pending in the session: nothing is visible to others before the commit.  *)
(* Requests answered without a write (404, 422, already in the requested    *)
(* state, the read-only routes) change nothing and are not steps.           *)

Defer(r, op, t, bg, next) ==
  req' = [req EXCEPT ![r] =
    [pc |-> IF bg = "none" \/ CommitFirst THEN "commit" ELSE "background",
     op |-> op, task |-> t, bg |-> bg, next |-> next]]

Accepts(r, t) == req[r].pc = "idle" /\ Len(history[t]) < MaxEvents

create_task(r, t, tr) ==
  /\ Accepts(r, t)
  /\ trigger[t] = NULL
  /\ trigger' = [trigger EXCEPT ![t] = tr]
  /\ Defer(r, "create", t, "register", compute_next_run_at(tr, now))
  /\ UNCHANGED <<now, row, sched, history, job>>

(* Mutant: the expiry check of once tasks is missing. *)
CanActivateExpired(t) == compute_next_run_at(trigger[t], now) # NULL

CanActivate(t) ==
  LET next == compute_next_run_at(trigger[t], now)
  IN  next # NULL /\ (OneShot(t) => next > now)

(* Mutant: the background task is not added. *)
ActivateUnregistered(r, t) ==
  /\ Accepts(r, t)
  /\ row[t].status = "inactive"
  /\ CanActivate(t)
  /\ Defer(r, "activate", t, "none", compute_next_run_at(trigger[t], now))
  /\ UNCHANGED <<now, trigger, row, sched, history, job>>

activate_task(r, t) ==
  /\ Accepts(r, t)
  /\ row[t].status = "inactive"
  /\ CanActivate(t)
  /\ Defer(r, "activate", t, "register", compute_next_run_at(trigger[t], now))
  /\ UNCHANGED <<now, trigger, row, sched, history, job>>

deactivate_task(r, t) ==
  /\ Accepts(r, t)
  /\ IsActive(t)
  /\ Defer(r, "deactivate", t, "unregister", NULL)
  /\ UNCHANGED <<now, trigger, row, sched, history, job>>

(* Mutant: the schedule is never removed. *)
DeleteRegistered(r, t) ==
  /\ Accepts(r, t)
  /\ Exists(t)
  /\ Defer(r, "delete", t, "none", NULL)
  /\ UNCHANGED <<now, trigger, row, sched, history, job>>

delete_task(r, t) ==
  /\ Accepts(r, t)
  /\ Exists(t)
  /\ Defer(r, "delete", t, IF IsActive(t) THEN "unregister" ELSE "none", NULL)
  /\ UNCHANGED <<now, trigger, row, sched, history, job>>

run_task(r, t) ==
  /\ Accepts(r, t)
  /\ Exists(t)
  /\ req' = [req EXCEPT ![r] = [pc |-> "load", op |-> "run", task |-> t,
                                bg |-> "none", next |-> NULL]]
  /\ UNCHANGED <<now, trigger, row, sched, history, job>>

-----------------------------------------------------------------------------
(* Background tasks. *)

(* What a background task does to the schedule store. *)
ScheduleAfter(r) ==
  [sched EXCEPT ![req[r].task] =
     IF req[r].bg = "register" THEN compute_next_run_at(trigger[req[r].task], now) ELSE NULL]

BackgroundDone(r) ==
  req' = [req EXCEPT ![r] = IF CommitFirst THEN IdleRequest ELSE [@ EXCEPT !.pc = "commit"]]

register_schedule(r) ==
  /\ req[r].pc = "background"
  /\ req[r].bg = "register"
  /\ sched' = ScheduleAfter(r)
  /\ BackgroundDone(r)
  /\ UNCHANGED <<now, trigger, row, history, job>>

unregister_schedule(r) ==
  /\ req[r].pc = "background"
  /\ req[r].bg = "unregister"
  /\ sched' = ScheduleAfter(r)
  /\ BackgroundDone(r)
  /\ UNCHANGED <<now, trigger, row, history, job>>

(* The scheduler call raises, with or without having taken effect.  The     *)
(* exception is re-raised; if the session is still open get_db rolls back.  *)
BackgroundFails(r) ==
  /\ "scheduler" \in Faults
  /\ req[r].pc = "background"
  /\ sched' \in {sched, ScheduleAfter(r)}
  /\ req' = [req EXCEPT ![r] = IdleRequest]
  /\ UNCHANGED <<now, trigger, row, history, job>>

-----------------------------------------------------------------------------
(* The commit of the request's session.  SQLAlchemy flushes the pending     *)
(* writes here: an UPDATE that matches no row raises StaleDataError and the *)
(* transaction rolls back, a DELETE that matches no row only warns.         *)

CommitDone(r) ==
  req' = [req EXCEPT ![r] =
    IF CommitFirst /\ @.bg # "none" THEN [@ EXCEPT !.pc = "background"] ELSE IdleRequest]

Stale(r) == req[r].op \in {"activate", "deactivate"} /\ ~Exists(req[r].task)

(* Mutant: a soft delete, that no reader of the table knows about. *)
CommittedRowSoftDelete(r) ==
  CASE req[r].op \in {"create", "activate"} -> ActiveRow(req[r].next)
    [] req[r].op = "deactivate"             -> InactiveRow
    [] OTHER                                -> [status |-> "deleted", next_run_at |-> NULL]

(* The row a commit writes and the event it appends, by handler. *)
CommittedRow(r) ==
  CASE req[r].op \in {"create", "activate"} -> ActiveRow(req[r].next)
    [] req[r].op = "deactivate"             -> InactiveRow
    [] OTHER                                -> Absent

(* Mutant: activation is recorded as creation. *)
CommittedEventCreated(r) ==
  CASE req[r].op \in {"create", "activate"} -> "task_created"
    [] req[r].op = "deactivate"             -> "task_deactivated"
    [] OTHER                                -> "task_deleted"

CommittedEvent(r) ==
  CASE req[r].op = "create"     -> "task_created"
    [] req[r].op = "activate"   -> "task_activated"
    [] req[r].op = "deactivate" -> "task_deactivated"
    [] OTHER                    -> "task_deleted"

(* Mutant: the row is merged into the session, so that a commit recreates a *)
(* row that is gone.                                                        *)
CommitMerges(r) ==
  /\ req[r].pc = "commit"
  /\ row' = [row EXCEPT ![req[r].task] = CommittedRow(r)]
  /\ Append1(req[r].task, CommittedEvent(r))
  /\ CommitDone(r)
  /\ UNCHANGED <<now, trigger, sched, job>>

Commit(r) ==
  /\ req[r].pc = "commit"
  /\ ~Stale(r)
  /\ row' = [row EXCEPT ![req[r].task] = CommittedRow(r)]
  /\ Append1(req[r].task, CommittedEvent(r))
  /\ CommitDone(r)
  /\ UNCHANGED <<now, trigger, sched, job>>

(* Mutant: the row is committed apart from its history event. *)
RollbackHistoryOnly(r) ==
  /\ req[r].pc = "commit"
  /\ Stale(r) \/ "commit" \in Faults
  /\ row' = [row EXCEPT ![req[r].task] = CommittedRow(r)]
  /\ req' = [req EXCEPT ![r] = IdleRequest]
  /\ UNCHANGED <<now, trigger, sched, history, job>>

Rollback(r) ==
  /\ req[r].pc = "commit"
  /\ Stale(r) \/ "commit" \in Faults
  /\ req' = [req EXCEPT ![r] = IdleRequest]
  /\ UNCHANGED <<now, trigger, row, sched, history, job>>

(* run_task_manually opens a second session and loads the task again: if it *)
(* is gone the ValueError ends the request.                                 *)
run_task_manually(r) ==
  /\ req[r].pc = "load"
  /\ req' = [req EXCEPT ![r] =
       IF Exists(@.task) THEN [@ EXCEPT !.pc = "firing"] ELSE IdleRequest]
  /\ UNCHANGED <<now, trigger, row, sched, history, job>>

(* The webhook answered: run_task records the execution and commits at once. *)
RecordManualRun(r) ==
  /\ req[r].pc = "firing"
  /\ \/ \E e \in {"manual_ok", "manual_failed"} : Append1(req[r].task, e)
     \/ "commit" \in Faults /\ UNCHANGED history
  /\ req' = [req EXCEPT ![r] = IdleRequest]
  /\ UNCHANGED <<now, trigger, row, sched, job>>

-----------------------------------------------------------------------------
(* APScheduler turns a due schedule into a queued job (external). *)
Dispatch(j, t) ==
  /\ job[j].pc = "idle"
  /\ sched[t] # NULL
  /\ sched[t] <= now
  /\ job' = [job EXCEPT ![j] = [pc |-> "queued", task |-> t]]
  /\ sched' = [sched EXCEPT ![t] = NextFire(trigger[t], @, now)]
  /\ UNCHANGED <<now, trigger, row, history, req>>

(* execute_scheduled_task, up to the webhook call: an unknown or inactive   *)
(* task is skipped.                                                         *)
LoadTask(j) ==
  /\ job[j].pc = "queued"
  /\ job' = [job EXCEPT ![j] = IF IsActive(@.task) THEN [@ EXCEPT !.pc = "firing"] ELSE IdleJob]
  /\ UNCHANGED <<now, trigger, row, sched, history, req>>

(* The webhook failed: the execution is recorded, nothing else changes. *)
RecordFailure(j) ==
  /\ job[j].pc = "firing"
  /\ Append1(job[j].task, "scheduled_failed")
  /\ job' = [job EXCEPT ![j] = IdleJob]
  /\ UNCHANGED <<now, trigger, row, sched, req>>

(* Mutants of the next action: every kind of task has its schedule removed; *)
(* next_run_at is left as it was; a deleted row is written again.           *)
RecordSuccessRemovesAll(j) ==
  LET t == job[j].task IN
  /\ job[j].pc = "firing"
  /\ OneShot(t) => Exists(t)
  /\ Append1(t, "scheduled_ok")
  /\ row' = IF OneShot(t) THEN [row EXCEPT ![t] = InactiveRow] ELSE row
  /\ job' = [job EXCEPT ![j].pc = "remove"]
  /\ UNCHANGED <<now, trigger, sched, req>>

RecordSuccessKeepsNext(j) ==
  LET t == job[j].task IN
  /\ job[j].pc = "firing"
  /\ OneShot(t) => Exists(t)
  /\ Append1(t, "scheduled_ok")
  /\ row' = IF OneShot(t) THEN [row EXCEPT ![t].status = "inactive"] ELSE row
  /\ job' = [job EXCEPT ![j] = IF OneShot(t) THEN [@ EXCEPT !.pc = "remove"] ELSE IdleJob]
  /\ UNCHANGED <<now, trigger, sched, req>>

RecordSuccessRevives(j) ==
  LET t == job[j].task IN
  /\ job[j].pc = "firing"
  /\ Append1(t, "scheduled_ok")
  /\ row' = IF OneShot(t) THEN [row EXCEPT ![t] = InactiveRow] ELSE row
  /\ job' = [job EXCEPT ![j] = IF OneShot(t) THEN [@ EXCEPT !.pc = "remove"] ELSE IdleJob]
  /\ UNCHANGED <<now, trigger, sched, req>>

(* The webhook succeeded: the execution is recorded and, in the same        *)
(* transaction, a once task is deactivated.                                 *)
RecordSuccess(j) ==
  LET t == job[j].task IN
  /\ job[j].pc = "firing"
  /\ OneShot(t) => Exists(t)
  /\ Append1(t, "scheduled_ok")
  /\ row' = IF OneShot(t) THEN [row EXCEPT ![t] = InactiveRow] ELSE row
  /\ job' = [job EXCEPT ![j] = IF OneShot(t) THEN [@ EXCEPT !.pc = "remove"] ELSE IdleJob]
  /\ UNCHANGED <<now, trigger, sched, req>>

(* The job's transaction rolls back: the row of a once task was deleted     *)
(* while its webhook ran (its UPDATE matches no row), or the commit failed. *)
JobRollback(j) ==
  /\ job[j].pc = "firing"
  /\ (OneShot(job[j].task) /\ ~Exists(job[j].task)) \/ "commit" \in Faults
  /\ job' = [job EXCEPT ![j] = IdleJob]
  /\ UNCHANGED <<now, trigger, row, sched, history, req>>

(* After its commit the job of a once task removes the schedule, in a step  *)
(* of its own; that call may fail.                                          *)
RemoveFiredSchedule(j) ==
  /\ job[j].pc = "remove"
  /\ \/ sched' = [sched EXCEPT ![job[j].task] = NULL]
     \/ "scheduler" \in Faults /\ UNCHANGED sched
  /\ job' = [job EXCEPT ![j] = IdleJob]
  /\ UNCHANGED <<now, trigger, row, history, req>>

-----------------------------------------------------------------------------
(* The process dies and restarts.  Requests vanish with their open          *)
(* transactions and running jobs are abandoned; rows, history, schedules    *)
(* and queued jobs are in the database.  The start-up code of app/main.py   *)
(* compares none of them.                                                   *)
Crash ==
  /\ "crash" \in Faults
  /\ req' = [r \in Request |-> IdleRequest]
  /\ job' = [j \in Job |-> IF job[j].pc = "queued" THEN job[j] ELSE IdleJob]
  /\ UNCHANGED <<now, trigger, row, sched, history>>

Tick ==
  /\ now < MaxNow
  /\ now' = now + 1
  /\ UNCHANGED <<trigger, row, sched, history, req, job>>

-----------------------------------------------------------------------------
ClientStep(r, t) ==
  \/ \E tr \in Trigger : create_task(r, t, tr)
  \/ activate_task(r, t)
  \/ deactivate_task(r, t)
  \/ delete_task(r, t)
  \/ run_task(r, t)

RequestStep(r) ==
  \/ register_schedule(r)
  \/ unregister_schedule(r)
  \/ BackgroundFails(r)
  \/ Commit(r)
  \/ Rollback(r)
  \/ run_task_manually(r)
  \/ RecordManualRun(r)

JobStep(j) ==
  \/ LoadTask(j)
  \/ RecordFailure(j)
  \/ RecordSuccess(j)
  \/ JobRollback(j)
  \/ RemoveFiredSchedule(j)

Next ==
  \/ \E r \in Request, t \in Task : ClientStep(r, t)
  \/ \E r \in Request : RequestStep(r)
  \/ \E j \in Job, t \in Task : Dispatch(j, t)
  \/ \E j \in Job : JobStep(j)
  \/ Crash
  \/ Tick

Spec == Init /\ [][Next]_vars

(***************************************************************************)
(* Fairness: a request or a job that was started goes on (the event loop    *)
(* runs every coroutine; webhook and database calls have timeouts), the     *)
(* scheduler dispatches what is due, time passes.  Clients owe nothing.     *)
(***************************************************************************)
Fairness ==
  /\ \A r \in Request : WF_vars(RequestStep(r))
  /\ \A j \in Job : WF_vars(JobStep(j))
  /\ \A t \in Task : WF_vars(\E j \in Job : Dispatch(j, t))
  /\ WF_vars(Tick)

FairSpec == Spec /\ Fairness

-----------------------------------------------------------------------------
TypeOK ==
  /\ now \in Nat
  /\ trigger \in [Task -> Trigger \cup {NULL}]
  /\ row \in [Task -> Row]
  /\ sched \in [Task -> Time]
  /\ history \in [Task -> Seq(Event)]
  /\ req \in [Request -> RequestState]
  /\ job \in [Job -> JobState]

-----------------------------------------------------------------------------
(* Safety that survives every interleaving and every fault. *)

(* The events that decide the status of a row, and the status they leave. *)
SetsStatus(t, e) == e \in LifecycleEvent \/ (e = "scheduled_ok" /\ OneShot(t))

StatusAfter(e) ==
  CASE e \in {"task_created", "task_activated"}   -> "active"
    [] e \in {"task_deactivated", "scheduled_ok"} -> "inactive"
    [] OTHER                                      -> "absent"

(* The audit trail explains the table: a task without history has no row,   *)
(* and otherwise the last status-setting event of task_history gives the    *)
(* status of the row.  It fails if any write of a row and its record_* call *)
(* could be committed apart, or if a commit could revive a deleted row.     *)
AuditReplay ==
  \A t \in Task :
    /\ history[t] = <<>> => ~Exists(t)
    /\ \A i \in DOMAIN history[t] :
         /\ SetsStatus(t, history[t][i])
         /\ \A k \in DOMAIN history[t] : k > i => ~SetsStatus(t, history[t][k])
         => row[t].status = StatusAfter(history[t][i])

(* The history of a task begins with task_created and never has another:    *)
(* the insert of create_task is the only way for a row to appear, and no    *)
(* job or request commits anything about a task before it.                  *)
CreatedFirstAndOnce ==
  \A t \in Task : \A i \in DOMAIN history[t] :
    history[t][i] = "task_created" <=> i = 1

(* Deletion is final whatever was in flight when delete_task committed:     *)
(* the row stays absent, and the history goes on only with executions that  *)
(* were already running (never the success of a once task, whose UPDATE     *)
(* finds no row) and with further concurrent deletes.                       *)
DeletedForGood ==
  \A t \in Task : \A i \in DOMAIN history[t] :
    history[t][i] = "task_deleted" =>
      /\ ~Exists(t)
      /\ \A k \in DOMAIN history[t] :
           k > i => \/ history[t][k] = "task_deleted"
                    \/ ~SetsStatus(t, history[t][k])

(* next_run_at is set exactly in the active rows whose trigger ever fires,  *)
(* although four handlers and the executor write the two columns            *)
(* independently of each other.                                             *)
NextRunMatchesStatus ==
  \A t \in Task :
    row[t].next_run_at # NULL <=> IsActive(t) /\ Satisfiable(trigger[t])

-----------------------------------------------------------------------------
(* Refinement: the committed rows and history, seen without requests, jobs, *)
(* schedules and failures, behave as TaskAudit allows.                      *)
Audit == INSTANCE TaskAudit WITH
  status <- [t \in Task |-> row[t].status],
  once   <- [t \in Task |-> history[t] # <<>> /\ OneShot(t)],
  log    <- history

(* Every step of handlers, background tasks, commits, jobs and faults is a  *)
(* single audited step of TaskAudit or leaves table and history unchanged.  *)
ImplementsAudit == Audit!AuditSpec

-----------------------------------------------------------------------------
(* Agreement of the two stores, when requests on a task do not overlap.     *)

(* No request on t is in flight. *)
Quiet(t) == \A r \in Request : req[r].task # t

(* A schedule belongs to an active row: pausing or deleting a task removes  *)
(* its schedule, and the executor's late remove_schedule or a skipped job   *)
(* leaves none behind.                                                      *)
NoOrphanSchedule ==
  \A t \in Task : Quiet(t) /\ sched[t] # NULL => IsActive(t)

(* An active task that has a fire time ahead of it is known to the          *)
(* scheduler: recurring tasks always, once tasks until run_at.              *)
ActiveIsScheduled ==
  \A t \in Task :
    /\ Quiet(t)
    /\ IsActive(t)
    /\ Satisfiable(trigger[t])
    /\ OneShot(t) => trigger[t].n > now
    => sched[t] # NULL

(* The read-only preview route, for a task whose row exists. *)
get_task_schedule(t, built, count) == compute_upcoming_run_times(trigger[t], built, now, count)

(* The preview, computed anew from the stored trigger, agrees with the      *)
(* scheduler: for a once or cron task, whose next fire is not being         *)
(* dispatched, its first time after this instant is the fire time the       *)
(* schedule store holds, and there is none when the store holds none.  (The *)
(* preview of an interval restarts its phase at every call.)                *)
FirstAfter(s) ==
  LET later == {s[i] : i \in {k \in DOMAIN s : s[k] > now}}
  IN  IF later = {} THEN NULL ELSE CHOOSE x \in later : \A y \in later : x <= y

PreviewMatchesSchedule ==
  \A t \in Task :
    /\ Quiet(t) /\ IsActive(t)
    /\ trigger[t].type # "interval"
    /\ sched[t] # NULL => sched[t] > now
    => sched[t] = FirstAfter(get_task_schedule(t, now, 2))

(* The scheduled webhook of a once task is attempted at most once, however  *)
(* it is paused, resumed, run by hand or failing in between.                *)
Attempts(t) == {i \in DOMAIN history[t] : history[t][i] \in {"scheduled_ok", "scheduled_failed"}}

OnceAttemptedOnce ==
  \A t \in Task : OneShot(t) => Cardinality(Attempts(t)) <= 1

-----------------------------------------------------------------------------
(* Liveness. *)

(* A once task whose run_at lies ahead when its request is over gets its    *)
(* scheduled webhook attempted, unless a client pauses or deletes it.       *)
FutureOnceFires ==
  \A t \in Task :
    IsActive(t) /\ OneShot(t) /\ Quiet(t) /\ trigger[t].n > now
      ~> Attempts(t) # {} \/ ~IsActive(t)

(* The same for every active once task, the ones created with a run_at that *)
(* is already due included.                                                 *)
EveryOnceFires ==
  \A t \in Task :
    IsActive(t) /\ OneShot(t) ~> Attempts(t) # {} \/ ~IsActive(t)

-----------------------------------------------------------------------------
(* What the API documentation says, where the code does otherwise. *)

(* "Next scheduled fire time in UTC, or null if inactive": once an active   *)
(* task has been fired and no job of it is left, the next_run_at the API    *)
(* shows for it is the next fire time of its schedule (for a once task,     *)
(* which has no next one, that it is inactive).                             *)
NoJob(t) == \A j \in Job : job[j].task # t

NextRunIsNextFire ==
  \A t \in Task :
    Quiet(t) /\ NoJob(t) /\ IsActive(t) /\ Attempts(t) # {} => row[t].next_run_at = sched[t]

(* "records ... webhook executions": every scheduled webhook call that ends *)
(* leaves an event in the history.                                          *)
EveryFireRecorded ==
  [][\A j \in Job :
       job[j].pc = "firing" /\ job'[j].pc # "firing"
         => Len(history'[job[j].task]) > Len(history[job[j].task])]_vars
=============================================================================
