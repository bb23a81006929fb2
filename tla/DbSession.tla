----------------------------- MODULE DbSession ------------------------------
(***************************************************************************)
(* Who sees and writes which rows, over which connection: the sessions of   *)
(* app/db/dependencies.py and of the executor, the transaction-local        *)
(* settings of app/db/rls.py, the loader criteria of app/db/scope.py, the   *)
(* row-level security policies of the migrations and the connection pool of *)
(* app/db/engine.py, which requests, jobs and the scheduler's data store    *)
(* share.                                                                   *)
(*                                                                          *)
(* A process is an HTTP request or a scheduled job.  Its main connection is *)
(* that of its session.  A request that changes a task needs a second one   *)
(* for the scheduler's data store, and a manual run one for the executor's  *)
(* session, both while it holds the first.  Connections that are taken for  *)
(* one statement while holding none (the data store's own polling, the      *)
(* remove_schedule after a job's session) are left out: they wait and end   *)
(* like the health check.                                                   *)
(***************************************************************************)
EXTENDS Naturals, FiniteSets

CONSTANTS
  NULL,
  User, Task,
  Owner,        \* [Task -> User]: the user_id column
  Request, Job, \* processes
  Conn,         \* connections of the pool: max(min_pool_size, max_pool_size)
  Role          \* database roles: "superuser" bypasses row-level security

ASSUME OwnerAssumption == Owner \in [Task -> User]
ASSUME ProcAssumption == Request \cap Job = {}
ASSUME RoleAssumption == Role \subseteq {"superuser", "restricted"}
ASSUME NullIsNothing == NULL \notin User /\ NULL \notin Task /\ NULL \notin Request \cup Job

Proc == Request \cup Job

VARIABLES
  role,   \* the role the service connects as
  conn,   \* [Conn -> connection]: who holds it and its app.* settings
  proc    \* [Proc -> process]

sessionVars == <<role, conn, proc>>

Connection ==
  [holder : Proc \cup {NULL}, part : {"none", "main", "second"},
   current_user_id : User \cup {NULL}, is_scheduler : BOOLEAN]
Free == [holder |-> NULL, part |-> "none", current_user_id |-> NULL, is_scheduler |-> FALSE]

(* kind: the public health check, a read, a change that calls the scheduler *)
(* (create, activate, deactivate, delete), a manual run, a scheduled job.   *)
Kind == {"none", "health", "read", "change", "run", "job"}
Process ==
  [pc : {"idle", "connect", "select", "second", "using", "end"}, kind : Kind,
   user : User \cup {NULL}, task : Task \cup {NULL}, seen : SUBSET Task]
Idle == [pc |-> "idle", kind |-> "none", user |-> NULL, task |-> NULL, seen |-> {}]

Holds(p, part) == {c \in Conn : conn[c].holder = p /\ conn[c].part = part}
Main(p) == CHOOSE c \in Holds(p, "main") : TRUE
FreeConn == {c \in Conn : conn[c].holder = NULL}

-----------------------------------------------------------------------------
(* Which rows of user u a statement reads or inserts on connection c. *)

(* scheduled_tasks_user_all, scheduled_tasks_scheduler *)
TaskPolicy(c, u) ==
  role = "superuser" \/ conn[c].current_user_id = u \/ conn[c].is_scheduler

(* task_history_user_insert, task_history_scheduler_insert.  SQLAlchemy     *)
(* reads created_at back with RETURNING, so that the new row must also pass *)
(* task_history_user_select, which the scheduler's sessions never do.       *)
HistoryInsertPolicy(c, u) ==
  \/ role = "superuser"
  \/ /\ conn[c].current_user_id = u \/ conn[c].is_scheduler
     /\ conn[c].current_user_id = u

(* Mutant: the listener is never registered. *)
NoUserScope(p, u) == TRUE

(* The loader criteria on every SELECT of a session that has a user. *)
_apply_user_scope(p, u) == proc[p].user = NULL \/ proc[p].user = u

Visible(p) == {t \in Task : TaskPolicy(Main(p), Owner[t]) /\ _apply_user_scope(p, Owner[t])}

-----------------------------------------------------------------------------
SessionInit ==
  /\ role \in Role
  /\ conn = [c \in Conn |-> Free]
  /\ proc = [p \in Proc |-> Idle]

(* A request passes the middleware: a public path, or a token with a sub.   *)
(* (The others are answered with 401 before any session is opened.)         *)
dispatch(r, kind, u, t) ==
  /\ proc[r].pc = "idle"
  /\ kind = "health" <=> u = NULL
  /\ kind \in {"change", "run"} <=> t # NULL
  /\ proc' = [proc EXCEPT ![r] = [Idle EXCEPT !.pc = "connect", !.kind = kind,
                                              !.user = u, !.task = t]]
  /\ UNCHANGED <<role, conn>>

execute_scheduled_task(j, t) ==
  /\ proc[j].pc = "idle"
  /\ proc' = [proc EXCEPT ![j] = [Idle EXCEPT !.pc = "connect", !.kind = "job", !.task = t]]
  /\ UNCHANGED <<role, conn>>

(* Mutant: the executor's session does not call set_scheduler_rls. *)
CheckoutNoScheduler(p) ==
  /\ proc[p].pc = "connect"
  /\ \E c \in FreeConn :
       conn' = [conn EXCEPT ![c] =
         [holder |-> p, part |-> "main", current_user_id |-> proc[p].user,
          is_scheduler |-> FALSE]]
  /\ proc' = [proc EXCEPT ![p].pc = IF proc[p].kind = "health" THEN "end" ELSE "select"]
  /\ UNCHANGED role

(* The first statement of a session takes a connection and begins a         *)
(* transaction: set_user_rls, set_scheduler_rls or the health check's       *)
(* SELECT 1.  The settings are local to the transaction.                    *)
Checkout(p) ==
  /\ proc[p].pc = "connect"
  /\ \E c \in FreeConn :
       conn' = [conn EXCEPT ![c] =
         [holder |-> p, part |-> "main", current_user_id |-> proc[p].user,
          is_scheduler |-> proc[p].kind = "job"]]
  /\ proc' = [proc EXCEPT ![p].pc = IF proc[p].kind = "health" THEN "end" ELSE "select"]
  /\ UNCHANGED role

(* Mutant: the second session is not closed on an exception. *)
ReleaseMainOnly(p) ==
  [c \in Conn |-> IF conn[c].holder = p /\ conn[c].part = "main" THEN Free ELSE conn[c]]

(* Mutant: set_config with is_local = false outlives the transaction. *)
ReleaseKeepsSettings(p) ==
  [c \in Conn |-> IF conn[c].holder = p
                  THEN [conn[c] EXCEPT !.holder = NULL, !.part = "none"] ELSE conn[c]]

(* The end of a session: commit or rollback ends its transaction, and with  *)
(* it the settings; the connection goes back to the pool.                   *)
Released(p) == [c \in Conn |-> IF conn[c].holder = p THEN Free ELSE conn[c]]

(* Mutant: no pool_timeout, so that a checkout waits for ever. *)
NoPoolTimeout(p) == FALSE /\ UNCHANGED sessionVars

(* pool_timeout: nothing was returned in time.  The exception closes every  *)
(* session of the process (500, or 503 from the health check).              *)
PoolTimeout(p) ==
  /\ proc[p].pc \in {"connect", "second"}
  /\ FreeConn = {}
  /\ conn' = Released(p)
  /\ proc' = [proc EXCEPT ![p] = Idle]
  /\ UNCHANGED role

(* A new connection of the pool cannot be opened: DatabaseConnectionError    *)
(* after async_creator's last attempt.                                      *)
ConnectFails(p) ==
  /\ proc[p].pc \in {"connect", "second"}
  /\ FreeConn # {}
  /\ conn' = Released(p)
  /\ proc' = [proc EXCEPT ![p] = Idle]
  /\ UNCHANGED role

(* The query of the handler or of _load_task.  A task it does not find is a *)
(* 404 or a skipped job; a change may also turn out to need no scheduler    *)
(* call (already in that state, or a paused task deleted).                  *)
Select(p) ==
  /\ proc[p].pc = "select"
  /\ LET found == proc[p].task \in Visible(p) IN
     \E next \in {"second", "using", "end"} :
       /\ next = "second" => found /\ proc[p].kind \in {"change", "run"}
       /\ next = "using" => found /\ proc[p].kind = "job"
       /\ next = "end" => ~found \/ proc[p].kind \in {"read", "change"}
       /\ proc' = [proc EXCEPT ![p].pc = next, ![p].seen = Visible(p),
                               ![p].task = IF found THEN @ ELSE NULL]
  /\ UNCHANGED <<role, conn>>

(* The data store's call, or run_task_manually with set_scheduler_rls. *)
CheckoutSecond(p) ==
  /\ proc[p].pc = "second"
  /\ \E c \in FreeConn :
       conn' = [conn EXCEPT ![c] =
         [holder |-> p, part |-> "second", current_user_id |-> NULL,
          is_scheduler |-> proc[p].kind = "run"]]
  /\ proc' = [proc EXCEPT ![p].pc = "using"]
  /\ UNCHANGED role

(* Mutant: the handler commits before it records, which ends its settings. *)
UsedAfterCommit(p) ==
  /\ proc[p].pc = "using"
  /\ conn' = [c \in Conn |->
       IF c \in Holds(p, "second") THEN Free
       ELSE IF c \in Holds(p, "main") THEN [conn[c] EXCEPT !.current_user_id = NULL]
       ELSE conn[c]]
  /\ proc' = [proc EXCEPT ![p].pc = "end"]
  /\ UNCHANGED role

(* The scheduler call or the webhook is over: the second session closes. *)
Used(p) ==
  /\ proc[p].pc = "using"
  /\ conn' = [c \in Conn |-> IF c \in Holds(p, "second") THEN Free ELSE conn[c]]
  /\ proc' = [proc EXCEPT ![p].pc = "end"]
  /\ UNCHANGED role

(* The query, the scheduler call or the webhook raises: the sessions are     *)
(* closed and nothing is recorded.                                          *)
StepFails(p) ==
  /\ proc[p].pc \in {"select", "using"}
  /\ conn' = Released(p)
  /\ proc' = [proc EXCEPT ![p] = Idle]
  /\ UNCHANGED role

(* The user_id of the history row: the caller's in a handler, the task's in *)
(* the executor.                                                            *)
RecordedUser(p) == IF p \in Job THEN Owner[proc[p].task] ELSE proc[p].user

(* The end of get_db or of the job: the flush inserts the history row of a *)
(* task that was found, and the session commits, or rolls back if the       *)
(* policies refuse the row.  The connection is free again either way.       *)
Stores(p) ==
  /\ proc[p].pc = "end" /\ proc[p].task # NULL
  /\ HistoryInsertPolicy(Main(p), RecordedUser(p))

CloseSession(p) ==
  /\ proc[p].pc = "end"
  /\ conn' = Released(p)
  /\ proc' = [proc EXCEPT ![p] = Idle]
  /\ UNCHANGED role

Step(p) ==
  \/ Checkout(p)
  \/ PoolTimeout(p)
  \/ ConnectFails(p)
  \/ Select(p)
  \/ CheckoutSecond(p)
  \/ Used(p)
  \/ StepFails(p)
  \/ CloseSession(p)

-----------------------------------------------------------------------------
SessionTypeOK ==
  /\ role \in Role
  /\ conn \in [Conn -> Connection]
  /\ proc \in [Proc -> Process]

(* A request's SELECTs return rows of its own user only, with row-level     *)
(* security in force and without it (a superuser bypasses the policies, and *)
(* then the loader criteria are all there is).                              *)
OwnRowsOnly ==
  \A r \in Request : \A t \in proc[r].seen : Owner[t] = proc[r].user

(* The audit row stored for a task belongs to its owner, whether a handler  *)
(* (with the caller's id) or the executor (with the task's) writes it.      *)
AuditBelongsToOwner ==
  \A p \in Proc : Stores(p) => RecordedUser(p) = Owner[proc[p].task]

(* The settings a statement runs under are those of its own session: a      *)
(* connection that served another user, or the executor, comes back from    *)
(* the pool without them.                                                   *)
ScopeMatchesSession ==
  \A c \in Conn :
    /\ conn[c].holder = NULL => conn[c].current_user_id = NULL /\ ~conn[c].is_scheduler
    /\ conn[c].part = "main" =>
         /\ conn[c].current_user_id = proc[conn[c].holder].user
         /\ conn[c].is_scheduler <=> conn[c].holder \in Job

(* The executor finds every user's task: no policy and no loader criterion  *)
(* hides the row of the task a job is for.                                  *)
JobsSeeEveryTask ==
  \A j \in Job : proc[j].pc \in {"using", "end"} => proc[j].seen = Task

(* The policies never refuse the history row of a request's own change, nor *)
(* the executor's while the role bypasses them.                             *)
OwnInsertsAccepted ==
  \A p \in Proc :
    /\ proc[p].pc = "end" /\ proc[p].task # NULL
    /\ p \in Request \/ role = "superuser"
    => Stores(p)

(* Connections are accounted for: a process that is over holds none, one    *)
(* past its first statement holds exactly one main connection, and only a   *)
(* process using the scheduler or the executor a second one.                *)
PoolAccounting ==
  \A p \in Proc :
    /\ Cardinality(Holds(p, "main")) =
         IF proc[p].pc \in {"select", "second", "using", "end"} THEN 1 ELSE 0
    /\ Cardinality(Holds(p, "second")) =
         IF proc[p].pc = "using" /\ p \in Request THEN 1 ELSE 0

(* Although every change and every manual run waits for a second connection *)
(* while holding one, no process waits for ever.                            *)
EveryoneAnswered == \A p \in Proc : proc[p].pc # "idle" ~> proc[p].pc = "idle"
=============================================================================
