---------------------------- MODULE MCHistoryLog ----------------------------
(* Model-checking definitions for HistoryLog. *)
EXTENDS HistoryLog, TLC

CONSTANTS t1, t2

Tasks == {t1, t2}
Cron == [type |-> "cron", n |-> 0]
Once == [type |-> "once", n |-> 0]
Interval(n) == [type |-> "interval", n |-> n]

(* The last interval is one second too long for the column. *)
TaskTriggers == {Cron, Once, Interval(MaxInteger), Interval(MaxInteger + 1)}

Lifecycle(type, t, tr) == [event_type |-> type, task |-> t, trigger |-> tr, outcome |-> NULL]
Execution(t, code, ok) ==
  [event_type |-> "execution", task |-> t, trigger |-> NULL,
   outcome |-> [http_status |-> code, success |-> ok]]

(* Each writer, trigger and outcome, for one of two tasks. *)
Events ==
  {Lifecycle("task_created", t1, tr) : tr \in TaskTriggers \ {Once}}
  \cup {Lifecycle("task_activated", t2, NULL), Lifecycle("task_deleted", t2, Once)}
  \cup {Execution(t1, 204, TRUE), Execution(t2, 302, FALSE), Execution(t2, NULL, FALSE)}

(* Everything in pages of one or two, one task, one kind of event, a range. *)
AllRows == [task_id |-> NULL, event_type |-> NULL, since |-> NULL, until |-> NULL,
            order |-> "desc", limit |-> 2]
Queries ==
  {AllRows, [AllRows EXCEPT !.order = "asc", !.limit = 1],
   [AllRows EXCEPT !.task_id = t1, !.limit = 1],
   [AllRows EXCEPT !.event_type = "execution", !.limit = 1],
   [AllRows EXCEPT !.since = 2, !.until = 2, !.order = "asc", !.limit = 1]}

Sessions == Permutations(Txn)
=============================================================================
