----------------------------- MODULE HistoryLog -----------------------------
(***************************************************************************)
(* The audit history as a table: the columns app/services/task_history.py   *)
(* writes, the CHECK constraint and the column widths of the migration, the *)
(* entries app/schemas/history.py rebuilds from them, and the paginated     *)
(* listing of app/routes/history.py, read while other transactions commit.  *)
(*                                                                          *)
(* created_at is the start of the inserting transaction (PostgreSQL's       *)
(* now()), so a row may be committed after rows that are listed behind it,  *)
(* and transactions that start in the same microsecond share it.  The       *)
(* listing sorts by created_at alone: rows that share it come in an order   *)
(* that the database may choose anew for every page.  The clock does not    *)
(* run backwards.                                                           *)
(*                                                                          *)
(* A trigger is a record of Triggers; n stands for the cron expression with *)
(* its time zone, for the seconds, or for run_at.  webhook_url and          *)
(* execution_source are reduced to whether they are set; error_message is   *)
(* left out.                                                                *)
(***************************************************************************)
EXTENDS Triggers, Sequences, FiniteSets

CONSTANTS
  Task,
  Trigger,      \* triggers of the tasks
  Recorded,     \* the events that happen
  Txn,          \* transactions in flight
  MaxClock,     \* bound on the clock
  MaxRows,      \* bound on the rows committed and the transactions open
  MaxInteger,   \* the largest value of an INTEGER column
  Query         \* queries of the listing: HistoryListQuery without offset

EventType == {"task_created", "task_activated", "task_deactivated", "task_deleted", "execution"}

(* fire_task_webhook: a 2xx answer, another one, or none.                   *)
WebhookFireOutcome ==
  {o \in [http_status : 100 .. 599 \cup {NULL}, success : BOOLEAN] :
     o.success <=> o.http_status \in 200 .. 299}

(* What happened, as the caller of record_* knows it. *)
Event ==
  [event_type : {"task_created", "task_deleted"}, task : Task, trigger : Trigger, outcome : {NULL}]
  \cup [event_type : {"task_activated", "task_deactivated"}, task : Task, trigger : {NULL},
        outcome : {NULL}]
  \cup [event_type : {"execution"}, task : Task, trigger : {NULL}, outcome : WebhookFireOutcome]

ASSUME RecordedAssumption == Recorded \subseteq Event

ASSUME TriggerAssumption == Trigger \subseteq TriggerSpec
ASSUME BoundAssumption == MaxClock \in Nat \ {0} /\ MaxRows \in Nat /\ MaxInteger \in Nat
ASSUME NullIsNoValue ==
  NULL \notin Task /\ NULL \notin TriggerType /\ NULL \notin EventType /\ NULL \notin BOOLEAN

HistoryListQuery ==
  [task_id : Task \cup {NULL}, event_type : EventType \cup {NULL},
   since : Nat \cup {NULL}, until : Nat \cup {NULL}, order : {"asc", "desc"}, limit : 1 .. 100]

ASSUME QueryAssumption == Query \subseteq HistoryListQuery

VARIABLES
  clock,    \* the database's clock
  txn,      \* [Txn -> created_at of the open transaction, NULL if none]
  behind,   \* [Txn -> number of rows committed when it began]
  table,    \* committed rows, in the order of their commits
  refused,  \* the event whose insert the last commit was refused for, or NULL
  walk      \* a client reading one page after the other

vars == <<clock, txn, behind, table, refused, walk>>

-----------------------------------------------------------------------------
(* Writing. *)

NoTrigger == [cron_expression |-> NULL, cron_timezone |-> NULL, interval_seconds |-> NULL,
              once_run_at |-> NULL]

(* Mutant: the time zone is only written when the configuration has one. *)
TriggerColumnsNoZone(tr) ==
  CASE tr.type = "cron"     -> [NoTrigger EXCEPT !.cron_expression = tr.n]
    [] tr.type = "interval" -> [NoTrigger EXCEPT !.interval_seconds = tr.n]
    [] tr.type = "once"     -> [NoTrigger EXCEPT !.once_run_at = tr.n]

_trigger_columns(tr) ==
  CASE tr.type = "cron"     -> [NoTrigger EXCEPT !.cron_expression = tr.n, !.cron_timezone = tr.n]
    [] tr.type = "interval" -> [NoTrigger EXCEPT !.interval_seconds = tr.n]
    [] tr.type = "once"     -> [NoTrigger EXCEPT !.once_run_at = tr.n]

(* The columns record_task_created, record_task_lifecycle,                  *)
(* record_task_deleted and record_execution set; the others are NULL.       *)
Blank == [webhook_url |-> FALSE, trigger_type |-> NULL, columns |-> NoTrigger,
          execution_source |-> FALSE, http_status |-> NULL, success |-> NULL]

_snapshot_from_task(tr) ==
  [Blank EXCEPT !.webhook_url = TRUE, !.trigger_type = tr.type, !.columns = _trigger_columns(tr)]

(* Mutant: any answer of the webhook counts as a success. *)
RecordAnswered(o) ==
  [Blank EXCEPT !.webhook_url = TRUE, !.execution_source = TRUE,
                !.http_status = o.http_status, !.success = o.http_status # NULL]

record_execution(o) ==
  [Blank EXCEPT !.webhook_url = TRUE, !.execution_source = TRUE,
                !.http_status = o.http_status, !.success = o.success]

Columns(e) ==
  CASE e.event_type \in {"task_created", "task_deleted"} -> _snapshot_from_task(e.trigger)
    [] e.event_type = "execution"                        -> record_execution(e.outcome)
    [] OTHER                                             -> Blank

(* The row of event e, stored by a transaction that began at time at, when  *)
(* n rows were committed.  event and behind are no columns: they remember   *)
(* what was recorded and after what.                                        *)
TaskHistory(e, at, n) ==
  LET c == Columns(e) IN
  [event_type |-> e.event_type, task |-> e.task, created_at |-> at,
   webhook_url |-> c.webhook_url, trigger_type |-> c.trigger_type, columns |-> c.columns,
   execution_source |-> c.execution_source, http_status |-> c.http_status,
   success |-> c.success, event |-> e, behind |-> n]

(* The trigger columns that are not NULL. *)
Filled(c) == {f \in DOMAIN c : c[f] # NULL}

(* The constraint task_history_event_shape. *)
task_history_event_shape(type, c) ==
  \/ /\ type \in {"task_created", "task_deleted"}
     /\ c.webhook_url /\ c.trigger_type # NULL
     /\ ~c.execution_source /\ c.http_status = NULL /\ c.success = NULL
     /\ \/ c.trigger_type = "cron" /\ Filled(c.columns) = {"cron_expression", "cron_timezone"}
        \/ c.trigger_type = "interval" /\ Filled(c.columns) = {"interval_seconds"}
        \/ c.trigger_type = "once" /\ Filled(c.columns) = {"once_run_at"}
  \/ /\ type \in {"task_activated", "task_deactivated"}
     /\ c = Blank
  \/ /\ type = "execution"
     /\ c.webhook_url /\ c.execution_source /\ c.success # NULL
     /\ c.trigger_type = NULL /\ Filled(c.columns) = {}
     /\ ~c.success \/ c.http_status # NULL

(* interval_seconds is an INTEGER, while the trigger's own seconds are kept *)
(* in JSON and have no upper bound.                                         *)
Storable(c) == c.columns.interval_seconds # NULL => c.columns.interval_seconds <= MaxInteger

-----------------------------------------------------------------------------
(* Reading. *)

_trigger_config_from_row(row) ==
  CASE row.trigger_type = "cron"     -> row.columns.cron_expression
    [] row.trigger_type = "interval" -> row.columns.interval_seconds
    [] row.trigger_type = "once"     -> row.columns.once_run_at

entry_from_row(row) ==
  CASE row.event_type \in {"task_created", "task_deleted"} ->
         [event_type |-> row.event_type, task |-> row.task, outcome |-> NULL,
          trigger |-> [type |-> row.trigger_type, n |-> _trigger_config_from_row(row)]]
    [] row.event_type = "execution" ->
         [event_type |-> row.event_type, task |-> row.task, trigger |-> NULL,
          outcome |-> [http_status |-> row.http_status, success |-> row.success]]
    [] OTHER ->
         [event_type |-> row.event_type, task |-> row.task, trigger |-> NULL, outcome |-> NULL]

_history_filters(q, row) ==
  /\ q.task_id # NULL => row.task = q.task_id
  /\ q.event_type # NULL => row.event_type = q.event_type
  /\ q.since # NULL => row.created_at >= q.since
  /\ q.until # NULL => row.created_at <= q.until

Matching(q) == {i \in DOMAIN table : _history_filters(q, table[i])}

(* ORDER BY created_at: row k is listed before row i.  There is no second   *)
(* sort key.                                                                *)
_history_order_by(q, k, i) ==
  IF q.order = "asc" THEN table[k].created_at < table[i].created_at
                     ELSE table[k].created_at > table[i].created_at

(* What the first n rows of the listing can be. *)
FirstRows(q, n) ==
  LET M == Matching(q)
      size == IF n < Cardinality(M) THEN n ELSE Cardinality(M)
  IN {A \in SUBSET M :
        /\ Cardinality(A) = size
        /\ \A i \in A, k \in M \ A : ~_history_order_by(q, k, i)}

(* Mutant: pages are numbered, and offset counts them. *)
PageByNumber(q, offset) ==
  LET upto == FirstRows(q, (offset + 1) * q.limit)
  IN UNION {{B \ A : B \in {C \in upto : A \subseteq C}} : A \in FirstRows(q, offset * q.limit)}

(* LIMIT and OFFSET: what can follow the first offset rows, in one of the   *)
(* orders the sort allows.                                                  *)
Page(q, offset) ==
  LET upto == FirstRows(q, offset + q.limit)
  IN UNION {{B \ A : B \in {C \in upto : A \subseteq C}} : A \in FirstRows(q, offset)}

-----------------------------------------------------------------------------
NoWalk == [pc |-> "idle", query |-> NULL, offset |-> 0, known |-> {}, seen |-> {}]

Init ==
  /\ clock = 1
  /\ txn = [x \in Txn |-> NULL]
  /\ behind = [x \in Txn |-> 0]
  /\ table = <<>>
  /\ refused = NULL
  /\ walk = NoWalk

(* The next microsecond. *)
Tick ==
  /\ clock < MaxClock
  /\ clock' = clock + 1
  /\ UNCHANGED <<txn, behind, table, refused, walk>>

Open == {x \in Txn : txn[x] # NULL}

(* The first statement of a session (set_user_rls, set_scheduler_rls), at   *)
(* whatever time it is.                                                     *)
Begin(x) ==
  /\ txn[x] = NULL
  /\ Len(table) + Cardinality(Open) < MaxRows
  /\ txn' = [txn EXCEPT ![x] = clock]
  /\ behind' = [behind EXCEPT ![x] = Len(table)]
  /\ UNCHANGED <<clock, table, refused, walk>>

(* Mutant: the default is computed once, when the model is loaded. *)
CreatedAtImport(x) == 0

(* created_at: its server default is evaluated by the INSERT. *)
created_at(x) == txn[x]

(* Mutant: the commit releases a savepoint only, and what the session       *)
(* records next is stamped with the start of the outer transaction.         *)
CommitSavepoint(x, e) ==
  LET c == Columns(e) IN
  /\ txn[x] # NULL /\ Len(table) < MaxRows
  /\ task_history_event_shape(e.event_type, c) /\ Storable(c)
  /\ table' = Append(table, TaskHistory(e, created_at(x), behind[x]))
  /\ behind' = [behind EXCEPT ![x] = Len(table) + 1]
  /\ UNCHANGED <<clock, txn, refused, walk>>

(* The flush and commit of the session that recorded e.  A row the database *)
(* does not take rolls the transaction back.                                *)
Commit(x, e) ==
  LET c == Columns(e) IN
  /\ txn[x] # NULL
  /\ \/ /\ task_history_event_shape(e.event_type, c) /\ Storable(c)
        /\ table' = Append(table, TaskHistory(e, created_at(x), behind[x]))
        /\ refused' = NULL
     \/ /\ ~(task_history_event_shape(e.event_type, c) /\ Storable(c))
        /\ refused' = e
        /\ UNCHANGED table
  /\ txn' = [txn EXCEPT ![x] = NULL]
  /\ behind' = [behind EXCEPT ![x] = 0]
  /\ UNCHANGED <<clock, walk>>

(* A client starts to read the history page by page ... *)
StartWalk(q) ==
  /\ walk.pc = "idle"
  /\ walk' = [pc |-> "paging", query |-> q, offset |-> 0, known |-> DOMAIN table, seen |-> {}]
  /\ UNCHANGED <<clock, txn, behind, table, refused>>

(* ... until a page is not full.  (The total, counted by a statement of its  *)
(* own before, is no bound on the rows the page sees.)                      *)
_list_history ==
  /\ walk.pc = "paging"
  /\ \E page \in Page(walk.query, walk.offset) :
       walk' = [walk EXCEPT !.pc = IF Cardinality(page) < walk.query.limit THEN "done" ELSE "paging",
                            !.offset = @ + walk.query.limit,
                            !.seen = @ \cup page]
  /\ UNCHANGED <<clock, txn, behind, table, refused>>

Next ==
  \/ Tick
  \/ \E x \in Txn : Begin(x)
  \/ \E x \in Txn, e \in Recorded : Commit(x, e)
  \/ \E q \in Query : StartWalk(q)
  \/ _list_history

Spec == Init /\ [][Next]_vars

-----------------------------------------------------------------------------
TypeOK ==
  /\ clock \in 1 .. MaxClock
  /\ txn \in [Txn -> Nat \cup {NULL}]
  /\ behind \in [Txn -> Nat]
  /\ \A i \in DOMAIN table : table[i].event_type \in EventType /\ table[i].created_at \in 1 .. clock
  /\ refused \in Recorded \cup {NULL}
  /\ walk.pc \in {"idle", "paging", "done"}
  /\ walk.known \cup walk.seen \subseteq DOMAIN table

(* The constraint and the writers agree: nothing a handler or the executor  *)
(* records is refused, except the trigger of an interval that is longer     *)
(* than the column can hold.                                                *)
RefusedOnlyOutOfRange ==
  refused # NULL =>
    /\ refused.event_type \in {"task_created", "task_deleted"}
    /\ refused.trigger.type = "interval" /\ refused.trigger.n > MaxInteger

(* What the API shows of an event is what was recorded: its task, its       *)
(* trigger or its outcome, through the columns and back.                    *)
ReadBackAsWritten ==
  \A i \in DOMAIN table : entry_from_row(table[i]) = table[i].event

(* The listed order respects real time: an event whose transaction began    *)
(* after another was committed never has the earlier created_at.            *)
(* (Transactions that overlap may be listed either way round.)              *)
RealTimeOrder ==
  \A i, k \in DOMAIN table :
    i <= table[k].behind => table[i].created_at <= table[k].created_at

(* The entries the query asks for (bounds included) that were committed     *)
(* when the client began to read.                                           *)
Wanted(q) ==
  {i \in walk.known :
     /\ q.task_id \in {NULL, table[i].task}
     /\ q.event_type \in {NULL, table[i].event_type}
     /\ table[i].created_at \in (IF q.since = NULL THEN 0 ELSE q.since) ..
                                (IF q.until = NULL THEN clock ELSE q.until)}

(* Another row of the listing was created in the same microsecond. *)
Tied(q, i) == \E k \in Matching(q) \ {i} : table[k].created_at = table[i].created_at

(* Reading page after page returns, of the entries that were committed when *)
(* the client began, none that was not asked for, and leaves out none but   *)
(* those that share their created_at with another row of the listing, which *)
(* the sort of _history_order_by may move between two pages.  Everything    *)
(* else is read, in either order, although rows are committed in between    *)
(* and may be listed anywhere, in the middle of a tie too: rows are never   *)
(* deleted, so that an entry can only move to a later page.                 *)
NoEntrySkipped ==
  walk.pc = "done" =>
    /\ walk.seen \cap walk.known \subseteq Wanted(walk.query)
    /\ \A i \in Wanted(walk.query) \ walk.seen : Tied(walk.query, i)
=============================================================================
