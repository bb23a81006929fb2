--------------------------- MODULE HistoryLogProofs -------------------------
(***************************************************************************)
(* Machine-checked proofs about HistoryLog: for every set of tasks, events, *)
(* transactions and queries, and any number of rows.                        *)
(***************************************************************************)
EXTENDS HistoryLog, FiniteSetTheorems, SequenceTheorems, TLAPS

(* The invariant. *)

(* A row is what one of the writers made of an event. *)
Row == {TaskHistory(e, at, n) : e \in Recorded, at \in Nat, n \in Nat}

(* When transactions begin and rows are created: never in the future. *)
ClockInv ==
  /\ \A i \in DOMAIN table : table[i].created_at \in 1 .. clock
  /\ \A x \in Txn : txn[x] # NULL => txn[x] \in 1 .. clock

(* A transaction began after the rows that were there. *)
BehindInv ==
  /\ \A k \in DOMAIN table : table[k].behind < k
  /\ \A x \in Txn : txn[x] # NULL =>
       /\ behind[x] <= Len(table)
       /\ \A i \in DOMAIN table : i <= behind[x] => table[i].created_at <= txn[x]

(* The rows of a table that a query asks for, the ones that come before row *)
(* i in every order the sort allows, and their number.  (The table is a     *)
(* parameter, to compare two states.)                                       *)
MatchingIn(tb, q) == {i \in DOMAIN tb : _history_filters(q, tb[i])}

BeforeIn(tb, q, i) ==
  {k \in MatchingIn(tb, q) :
     IF q.order = "asc" THEN tb[k].created_at < tb[i].created_at
                        ELSE tb[k].created_at > tb[i].created_at}

RankIn(tb, q, i) == Cardinality(BeforeIn(tb, q, i))

TiedIn(tb, q, i) == \E k \in MatchingIn(tb, q) \ {i} : tb[k].created_at = tb[i].created_at

(* What a client has read when it comes to an offset: of the entries it     *)
(* knows of, those before that offset, unless they share their created_at   *)
(* with another row.                                                        *)
WalkInv ==
  /\ walk \in [pc : {"idle", "paging", "done"}, query : Query \cup {NULL}, offset : Nat,
               known : SUBSET (DOMAIN table), seen : SUBSET (DOMAIN table)]
  /\ walk.pc # "idle" =>
       /\ walk.query \in Query
       /\ walk.seen \subseteq Matching(walk.query)
       /\ \A i \in Matching(walk.query) \cap walk.known :
            /\ walk.pc = "done" \/ RankIn(table, walk.query, i) < walk.offset
            /\ ~TiedIn(table, walk.query, i)
            => i \in walk.seen

Inv ==
  /\ clock \in 1 .. MaxClock
  /\ txn \in [Txn -> Nat \cup {NULL}]
  /\ behind \in [Txn -> Nat]
  /\ table \in Seq(Row)
  /\ refused \in Recorded \cup {NULL}
  /\ RefusedOnlyOutOfRange
  /\ ClockInv
  /\ BehindInv
  /\ RealTimeOrder
  /\ WalkInv

-----------------------------------------------------------------------------
(* Writing and reading back one event. *)

(* The trigger columns of each kind of trigger. *)
LEMMA TriggerColumns ==
  ASSUME NEW tr \in TriggerSpec
  PROVE  LET c == _trigger_columns(tr) IN
         /\ DOMAIN c = {"cron_expression", "cron_timezone", "interval_seconds", "once_run_at"}
         /\ tr.type = "cron" => /\ c.cron_expression = tr.n /\ c.cron_timezone = tr.n
                                /\ c.interval_seconds = NULL /\ c.once_run_at = NULL
         /\ tr.type = "interval" => /\ c.cron_expression = NULL /\ c.cron_timezone = NULL
                                    /\ c.interval_seconds = tr.n /\ c.once_run_at = NULL
         /\ tr.type = "once" => /\ c.cron_expression = NULL /\ c.cron_timezone = NULL
                                /\ c.interval_seconds = NULL /\ c.once_run_at = tr.n
<1>1. tr.type \in TriggerType
  BY DEF TriggerSpec
<1>2. CASE tr.type = "cron"
  BY <1>2 DEF _trigger_columns, NoTrigger
<1>3. CASE tr.type = "interval"
  BY <1>3 DEF _trigger_columns, NoTrigger
<1>4. CASE tr.type = "once"
  BY <1>4 DEF _trigger_columns, NoTrigger
<1>5. QED
  BY <1>1, <1>2, <1>3, <1>4 DEF TriggerType

(* The three kinds of events. *)
LEMMA EventKinds ==
  ASSUME NEW e \in Event
  PROVE  \/ /\ e.event_type \in {"task_created", "task_deleted"}
            /\ e.trigger \in TriggerSpec /\ e.outcome = NULL
            /\ e = [event_type |-> e.event_type, task |-> e.task, trigger |-> e.trigger, outcome |-> NULL]
         \/ /\ e.event_type \in {"task_activated", "task_deactivated"}
            /\ e.trigger = NULL /\ e.outcome = NULL
            /\ e = [event_type |-> e.event_type, task |-> e.task, trigger |-> NULL, outcome |-> NULL]
         \/ /\ e.event_type = "execution"
            /\ e.trigger = NULL /\ e.outcome \in WebhookFireOutcome
            /\ e = [event_type |-> e.event_type, task |-> e.task, trigger |-> NULL, outcome |-> e.outcome]
<1>1. CASE e \in [event_type : {"task_created", "task_deleted"}, task : Task, trigger : Trigger,
                  outcome : {NULL}]
  BY <1>1, TriggerAssumption
<1>2. CASE e \in [event_type : {"task_activated", "task_deactivated"}, task : Task,
                  trigger : {NULL}, outcome : {NULL}]
  BY <1>2
<1>3. CASE e \in [event_type : {"execution"}, task : Task, trigger : {NULL},
                  outcome : WebhookFireOutcome]
  BY <1>3
<1>4. QED
  BY <1>1, <1>2, <1>3 DEF Event

(* The outcome of a webhook call is its status and whether that is a 2xx. *)
LEMMA OutcomeFields ==
  ASSUME NEW o \in WebhookFireOutcome
  PROVE  /\ o.success \in BOOLEAN
         /\ o.success => o.http_status # NULL
         /\ o = [http_status |-> o.http_status, success |-> o.success]
<1>1. o \in [http_status : 100 .. 599 \cup {NULL}, success : BOOLEAN]
  BY DEF WebhookFireOutcome
<1>2. o.success <=> o.http_status \in 200 .. 299
  BY DEF WebhookFireOutcome
<1>3. o.success \in BOOLEAN
  BY <1>1
<1>4. o = [http_status |-> o.http_status, success |-> o.success]
  BY <1>1
<1>5. o.http_status \in 200 .. 299 => o.http_status # NULL
  BY NullAssumption
<1>6. QED
  BY <1>2, <1>3, <1>4, <1>5, Zenon

(* The columns of the three kinds of events. *)
LEMMA ColumnsOf ==
  ASSUME NEW e
  PROVE  LET c == Columns(e) IN
         /\ e.event_type \in {"task_created", "task_deleted"} =>
              /\ c.webhook_url = TRUE /\ c.trigger_type = e.trigger.type
              /\ c.columns = _trigger_columns(e.trigger)
              /\ c.execution_source = FALSE /\ c.http_status = NULL /\ c.success = NULL
         /\ e.event_type \in {"task_activated", "task_deactivated"} => c = Blank
         /\ e.event_type = "execution" =>
              /\ c.webhook_url = TRUE /\ c.trigger_type = NULL /\ c.columns = NoTrigger
              /\ c.execution_source = TRUE /\ c.http_status = e.outcome.http_status
              /\ c.success = e.outcome.success
<1>1. CASE e.event_type \in {"task_created", "task_deleted"}
  <2>1. Columns(e) = _snapshot_from_task(e.trigger)
    BY <1>1 DEF Columns
  <2>2. QED
    BY <1>1, <2>1 DEF _snapshot_from_task, Blank
<1>2. CASE e.event_type = "execution"
  <2>1. Columns(e) = record_execution(e.outcome)
    BY <1>2 DEF Columns
  <2>2. QED
    BY <1>2, <2>1 DEF record_execution, Blank
<1>3. CASE e.event_type \in {"task_activated", "task_deactivated"}
  BY <1>3 DEF Columns
<1>4. QED
  BY <1>1, <1>2, <1>3

(* Which trigger columns are filled: those the constraint asks for. *)
LEMMA FilledColumns ==
  ASSUME NEW tr \in TriggerSpec
  PROVE  Filled(_trigger_columns(tr)) =
           CASE tr.type = "cron" -> {"cron_expression", "cron_timezone"}
             [] tr.type = "interval" -> {"interval_seconds"}
             [] tr.type = "once" -> {"once_run_at"}
<1> DEFINE c == _trigger_columns(tr)
<1>1. tr.type \in TriggerType /\ tr.n # NULL
  BY NullAssumption DEF TriggerSpec
<1>2. /\ DOMAIN c = {"cron_expression", "cron_timezone", "interval_seconds", "once_run_at"}
      /\ tr.type = "cron" => /\ c.cron_expression = tr.n /\ c.cron_timezone = tr.n
                             /\ c.interval_seconds = NULL /\ c.once_run_at = NULL
      /\ tr.type = "interval" => /\ c.cron_expression = NULL /\ c.cron_timezone = NULL
                                 /\ c.interval_seconds = tr.n /\ c.once_run_at = NULL
      /\ tr.type = "once" => /\ c.cron_expression = NULL /\ c.cron_timezone = NULL
                             /\ c.interval_seconds = NULL /\ c.once_run_at = tr.n
  BY TriggerColumns
<1> HIDE DEF c
<1>3. CASE tr.type = "cron"
  <2>1. Filled(c) = {"cron_expression", "cron_timezone"}
    BY <1>1, <1>2, <1>3 DEF Filled
  <2>2. QED
    BY <1>3, <2>1 DEF c
<1>4. CASE tr.type = "interval"
  <2>1. Filled(c) = {"interval_seconds"}
    BY <1>1, <1>2, <1>4 DEF Filled
  <2>2. QED
    BY <1>4, <2>1 DEF c
<1>5. CASE tr.type = "once"
  <2>1. Filled(c) = {"once_run_at"}
    BY <1>1, <1>2, <1>5 DEF Filled
  <2>2. QED
    BY <1>5, <2>1 DEF c
<1>6. QED
  BY <1>1, <1>3, <1>4, <1>5 DEF TriggerType

(* Every writer meets the constraint, and only an interval can be too long  *)
(* for its column.                                                          *)
LEMMA WritersMeetConstraint ==
  ASSUME NEW e \in Event
  PROVE  /\ task_history_event_shape(e.event_type, Columns(e))
         /\ ~Storable(Columns(e)) =>
              /\ e.event_type \in {"task_created", "task_deleted"}
              /\ e.trigger.type = "interval" /\ e.trigger.n > MaxInteger
<1> DEFINE c == Columns(e)
<1>1. CASE e.event_type \in {"task_created", "task_deleted"} /\ e.trigger \in TriggerSpec
  <2>1. e.trigger.type \in TriggerType /\ e.trigger.n \in Nat
    BY <1>1 DEF TriggerSpec
  <2>2. /\ c.webhook_url = TRUE /\ c.trigger_type = e.trigger.type
        /\ c.columns = _trigger_columns(e.trigger)
        /\ c.execution_source = FALSE /\ c.http_status = NULL /\ c.success = NULL
    BY <1>1, ColumnsOf
  <2>3. c.trigger_type # NULL
    BY <2>1, <2>2, NullIsNoValue
  <2> HIDE DEF c
  <2>4. \/ c.trigger_type = "cron" /\ Filled(c.columns) = {"cron_expression", "cron_timezone"}
        \/ c.trigger_type = "interval" /\ Filled(c.columns) = {"interval_seconds"}
        \/ c.trigger_type = "once" /\ Filled(c.columns) = {"once_run_at"}
    BY <1>1, <2>1, <2>2, FilledColumns DEF TriggerType
  <2>5. task_history_event_shape(e.event_type, c)
    BY <1>1, <2>2, <2>3, <2>4, Zenon DEF task_history_event_shape
  <2>6. c.columns.interval_seconds # NULL =>
          e.trigger.type = "interval" /\ c.columns.interval_seconds = e.trigger.n
    BY <1>1, <2>1, <2>2, TriggerColumns DEF TriggerType
  <2>7. ~Storable(c) => e.trigger.type = "interval" /\ e.trigger.n > MaxInteger
    BY <2>1, <2>6, BoundAssumption DEF Storable
  <2>8. QED
    BY <1>1, <2>5, <2>7 DEF c
<1>2. CASE e.event_type \in {"task_activated", "task_deactivated"}
  <2>1. c = Blank
    BY <1>2, ColumnsOf
  <2>2. Blank.columns.interval_seconds = NULL
    BY DEF Blank, NoTrigger
  <2>3. QED
    BY <1>2, <2>1, <2>2 DEF task_history_event_shape, Storable
<1>3. CASE e.event_type = "execution" /\ e.outcome \in WebhookFireOutcome
  <2>1. /\ c.webhook_url = TRUE /\ c.trigger_type = NULL /\ c.columns = NoTrigger
        /\ c.execution_source = TRUE /\ c.http_status = e.outcome.http_status
        /\ c.success = e.outcome.success
    BY <1>3, ColumnsOf
  <2>2. e.outcome.success \in BOOLEAN /\ (e.outcome.success => e.outcome.http_status # NULL)
    BY <1>3, OutcomeFields
  <2>3. c.success # NULL
    BY <2>1, <2>2, NullIsNoValue, Zenon
  <2>4. Filled(NoTrigger) = {}
    BY DEF Filled, NoTrigger
  <2>5. NoTrigger.interval_seconds = NULL
    BY DEF NoTrigger
  <2> HIDE DEF c
  <2>6. task_history_event_shape(e.event_type, c)
    BY <1>3, <2>1, <2>2, <2>3, <2>4, Zenon DEF task_history_event_shape
  <2>7. Storable(c)
    BY <2>1, <2>5 DEF Storable
  <2>8. QED
    BY <2>6, <2>7 DEF c
<1>4. QED
  BY <1>1, <1>2, <1>3, EventKinds

(* The columns of a row. *)
LEMMA RowFields ==
  ASSUME NEW e, NEW at, NEW n
  PROVE  LET r == TaskHistory(e, at, n) IN
         /\ r.event_type = e.event_type /\ r.task = e.task /\ r.created_at = at
         /\ r.trigger_type = Columns(e).trigger_type /\ r.columns = Columns(e).columns
         /\ r.http_status = Columns(e).http_status /\ r.success = Columns(e).success
         /\ r.event = e /\ r.behind = n
BY DEF TaskHistory

(* What entry_from_row makes of the row of an event is the event. *)
LEMMA EntryOfRow ==
  ASSUME NEW e \in Event, NEW at, NEW n
  PROVE  entry_from_row(TaskHistory(e, at, n)) = e
<1> DEFINE r == TaskHistory(e, at, n)
<1>1. /\ r.event_type = e.event_type /\ r.task = e.task
      /\ r.trigger_type = Columns(e).trigger_type /\ r.columns = Columns(e).columns
      /\ r.http_status = Columns(e).http_status /\ r.success = Columns(e).success
  BY RowFields
<1> HIDE DEF r
<1>2. CASE /\ e.event_type \in {"task_created", "task_deleted"} /\ e.trigger \in TriggerSpec
           /\ e = [event_type |-> e.event_type, task |-> e.task, trigger |-> e.trigger, outcome |-> NULL]
  <2>1. r.trigger_type = e.trigger.type /\ r.columns = _trigger_columns(e.trigger)
    BY <1>1, <1>2, ColumnsOf
  <2>2. e.trigger.type \in TriggerType /\ e.trigger = [type |-> e.trigger.type, n |-> e.trigger.n]
    BY <1>2 DEF TriggerSpec
  <2>3. _trigger_config_from_row(r) = e.trigger.n
    BY <1>2, <2>1, <2>2, TriggerColumns DEF _trigger_config_from_row, TriggerType
  <2>4. entry_from_row(r) =
          [event_type |-> r.event_type, task |-> r.task, outcome |-> NULL,
           trigger |-> [type |-> r.trigger_type, n |-> _trigger_config_from_row(r)]]
    BY <1>1, <1>2 DEF entry_from_row
  <2>5. QED
    BY <1>1, <1>2, <2>1, <2>2, <2>3, <2>4 DEF r
<1>3. CASE /\ e.event_type \in {"task_activated", "task_deactivated"}
           /\ e = [event_type |-> e.event_type, task |-> e.task, trigger |-> NULL, outcome |-> NULL]
  <2>1. entry_from_row(r) =
          [event_type |-> r.event_type, task |-> r.task, trigger |-> NULL, outcome |-> NULL]
    BY <1>1, <1>3 DEF entry_from_row
  <2>2. QED
    BY <1>1, <1>3, <2>1 DEF r
<1>4. CASE /\ e.event_type = "execution" /\ e.outcome \in WebhookFireOutcome
           /\ e = [event_type |-> e.event_type, task |-> e.task, trigger |-> NULL, outcome |-> e.outcome]
  <2>1. r.http_status = e.outcome.http_status /\ r.success = e.outcome.success
    BY <1>1, <1>4, ColumnsOf
  <2>2. e.outcome = [http_status |-> e.outcome.http_status, success |-> e.outcome.success]
    BY <1>4, OutcomeFields
  <2>3. entry_from_row(r) =
          [event_type |-> r.event_type, task |-> r.task, trigger |-> NULL,
           outcome |-> [http_status |-> r.http_status, success |-> r.success]]
    BY <1>1, <1>4 DEF entry_from_row
  <2>4. QED
    BY <1>1, <1>4, <2>1, <2>2, <2>3 DEF r
<1>5. QED
  BY <1>2, <1>3, <1>4, EventKinds

-----------------------------------------------------------------------------
(* The table grows by one row at a time. *)
LEMMA TableGrows ==
  ASSUME table \in Seq(Row), NEW r \in Row, table' = Append(table, r)
  PROVE  /\ table' \in Seq(Row)
         /\ Len(table) \in Nat
         /\ Len(table)' = Len(table) + 1
         /\ DOMAIN table = 1 .. Len(table)
         /\ DOMAIN table' = 1 .. Len(table) + 1
         /\ \A i \in DOMAIN table : table'[i] = table[i]
         /\ table'[Len(table) + 1] = r
BY AppendProperties

(* A row of the table, column by column. *)
LEMMA RowsAreEvents ==
  ASSUME table \in Seq(Row), NEW i \in DOMAIN table
  PROVE  /\ table[i].event \in Recorded /\ table[i].event \in Event
         /\ table[i].event_type = table[i].event.event_type /\ table[i].task = table[i].event.task
         /\ table[i].created_at \in Nat /\ table[i].behind \in Nat
         /\ entry_from_row(table[i]) = table[i].event
<1>1. table[i] \in Row
  OBVIOUS
<1>2. PICK e \in Recorded, at \in Nat, n \in Nat : table[i] = TaskHistory(e, at, n)
  BY <1>1 DEF Row
<1>3. e \in Event
  BY RecordedAssumption
<1>4. QED
  BY <1>2, <1>3, RowFields, EntryOfRow

(* Beginning a transaction: it starts no earlier than anything that is there. *)
LEMMA BeginKeepsTimes ==
  ASSUME Inv, NEW x \in Txn, Begin(x)
  PROVE  ClockInv' /\ BehindInv' /\ RealTimeOrder' /\ clock' = clock
         /\ txn' \in [Txn -> Nat \cup {NULL}] /\ behind' \in [Txn -> Nat]
<1>1. /\ clock' = clock /\ table' = table
      /\ txn' = [txn EXCEPT ![x] = clock] /\ behind' = [behind EXCEPT ![x] = Len(table)]
  BY DEF Begin
<1>2. /\ table \in Seq(Row) /\ Len(table) \in Nat /\ DOMAIN table = 1 .. Len(table)
      /\ clock \in Nat /\ clock > 0
  BY BoundAssumption DEF Inv
<1>3. \A y \in Txn : /\ txn'[y] = IF y = x THEN clock ELSE txn[y]
                     /\ behind'[y] = IF y = x THEN Len(table) ELSE behind[y]
  BY <1>1 DEF Inv
<1>4. \A i \in DOMAIN table : table[i].created_at \in Nat /\ table[i].behind \in Nat
  BY <1>2, RowsAreEvents
<1>5. ClockInv'
  BY <1>1, <1>2, <1>3, <1>4, NullAssumption DEF Inv, ClockInv
<1>6. BehindInv'
  BY <1>1, <1>2, <1>3, <1>4, NullAssumption DEF Inv, ClockInv, BehindInv
<1>7. RealTimeOrder'
  BY <1>1 DEF Inv, RealTimeOrder
<1>8. QED
  BY <1>1, <1>2, <1>5, <1>6, <1>7 DEF Inv

(* A commit that is refused or rolled back. *)
LEMMA RefusalKeepsTimes ==
  ASSUME Inv, NEW x \in Txn, UNCHANGED <<clock, table>>,
         txn' = [txn EXCEPT ![x] = NULL], behind' = [behind EXCEPT ![x] = 0]
  PROVE  ClockInv' /\ BehindInv' /\ RealTimeOrder'
         /\ txn' \in [Txn -> Nat \cup {NULL}] /\ behind' \in [Txn -> Nat]
<1>1. \A y \in Txn : /\ txn'[y] = IF y = x THEN NULL ELSE txn[y]
                     /\ behind'[y] = IF y = x THEN 0 ELSE behind[y]
  BY DEF Inv
<1>2. \A i \in DOMAIN table : table[i].created_at \in Nat
  BY RowsAreEvents DEF Inv
<1>3. ClockInv'
  BY <1>1, <1>2, NullAssumption DEF Inv, ClockInv
<1>4. BehindInv'
  BY <1>1 DEF Inv, BehindInv
<1>5. RealTimeOrder'
  BY DEF Inv, RealTimeOrder
<1>6. QED
  BY <1>3, <1>4, <1>5 DEF Inv

(* A commit stores a row with the time its transaction began. *)
LEMMA CommitKeepsTimes ==
  ASSUME Inv, NEW x \in Txn, NEW e \in Recorded, txn[x] # NULL, clock' = clock,
         table' = Append(table, TaskHistory(e, txn[x], behind[x])),
         txn' = [txn EXCEPT ![x] = NULL], behind' = [behind EXCEPT ![x] = 0]
  PROVE  ClockInv' /\ BehindInv' /\ RealTimeOrder' /\ table' \in Seq(Row)
         /\ txn' \in [Txn -> Nat \cup {NULL}] /\ behind' \in [Txn -> Nat]
<1> DEFINE r == TaskHistory(e, txn[x], behind[x])
           n == Len(table)
<1>1. txn[x] \in Nat /\ behind[x] \in Nat /\ r \in Row
  BY DEF Inv, Row
<1>2. r.created_at = txn[x] /\ r.behind = behind[x]
  BY RowFields
<1>3. /\ table' \in Seq(Row) /\ n \in Nat /\ Len(table)' = n + 1 /\ DOMAIN table = 1 .. n
      /\ DOMAIN table' = 1 .. n + 1 /\ table'[n + 1] = r
      /\ \A i \in DOMAIN table : table'[i] = table[i]
  BY <1>1, TableGrows DEF Inv
<1> HIDE DEF r, n
<1>4. \A y \in Txn : /\ txn'[y] = IF y = x THEN NULL ELSE txn[y]
                     /\ behind'[y] = IF y = x THEN 0 ELSE behind[y]
  BY DEF Inv
<1>5. \A i \in DOMAIN table : table[i].created_at \in Nat /\ table[i].behind \in Nat
  BY RowsAreEvents DEF Inv
<1>6. ClockInv'
  BY <1>1, <1>2, <1>3, <1>4, <1>5, NullAssumption DEF Inv, ClockInv
<1>7. BehindInv'
  <2>1. \A k \in DOMAIN table' : table'[k].behind < k
    BY <1>1, <1>2, <1>3, <1>5 DEF Inv, BehindInv, n
  <2>2. ASSUME NEW y \in Txn, txn'[y] # NULL
        PROVE  /\ behind'[y] <= n + 1
               /\ \A i \in DOMAIN table' : i <= behind'[y] => table'[i].created_at <= txn'[y]
    <3>1. y # x /\ txn'[y] = txn[y] /\ behind'[y] = behind[y] /\ behind[y] \in Nat
      BY <1>4, <2>2 DEF Inv
    <3>2. behind[y] <= n /\ \A i \in DOMAIN table : i <= behind[y] => table[i].created_at <= txn[y]
      BY <2>2, <3>1 DEF Inv, BehindInv, n
    <3>3. QED
      BY <1>3, <3>1, <3>2
  <2>3. QED
    BY <1>3, <2>1, <2>2 DEF BehindInv
<1>8. RealTimeOrder'
  <2>1. ASSUME NEW i \in DOMAIN table', NEW k \in DOMAIN table', i <= table'[k].behind
        PROVE  table'[i].created_at <= table'[k].created_at
    <3>1. CASE k = n + 1
      <4>1. behind[x] <= n /\ \A j \in DOMAIN table : j <= behind[x] => table[j].created_at <= txn[x]
        BY DEF Inv, BehindInv, n
      <4>2. QED
        BY <1>1, <1>2, <1>3, <2>1, <3>1, <4>1
    <3>2. CASE k # n + 1
      <4>1. k \in DOMAIN table /\ table'[k] = table[k] /\ table[k].behind < k
        BY <1>3, <3>2 DEF Inv, BehindInv
      <4>2. i \in DOMAIN table
        BY <1>3, <1>5, <2>1, <4>1
      <4>3. QED
        BY <1>3, <2>1, <4>1, <4>2 DEF Inv, RealTimeOrder
    <3>3. QED
      BY <3>1, <3>2
  <2>2. QED
    BY <2>1 DEF RealTimeOrder
<1>9. QED
  BY <1>3, <1>6, <1>7, <1>8 DEF Inv

-----------------------------------------------------------------------------
(* Positions in a listing. *)

(* Matching, _history_order_by and Tied are about the table of the state. *)
LEMMA ListingOfTable ==
  /\ \A q : Matching(q) = MatchingIn(table, q)
  /\ \A q, i : BeforeIn(table, q, i) = {k \in Matching(q) : _history_order_by(q, k, i)}
  /\ \A q, i : TiedIn(table, q, i) <=> Tied(q, i)
BY DEF Matching, MatchingIn, _history_order_by, BeforeIn, TiedIn, Tied

(* The rows of a table are finitely many, and so are those before one. *)
LEMMA RankType ==
  ASSUME NEW tb, NEW n \in Nat, DOMAIN tb = 1 .. n, NEW q, NEW i
  PROVE  /\ IsFiniteSet(MatchingIn(tb, q))
         /\ IsFiniteSet(BeforeIn(tb, q, i))
         /\ RankIn(tb, q, i) \in Nat
<1>1. IsFiniteSet(1 .. n)
  BY FS_Interval
<1>2. MatchingIn(tb, q) \in SUBSET (1 .. n) /\ BeforeIn(tb, q, i) \in SUBSET (1 .. n)
  BY DEF MatchingIn, BeforeIn
<1>3. IsFiniteSet(MatchingIn(tb, q)) /\ IsFiniteSet(BeforeIn(tb, q, i))
  BY <1>1, <1>2, FS_Subset
<1>4. QED
  BY <1>3, FS_CardinalityType DEF RankIn

(* A row that is added changes neither which of the others match nor their  *)
(* order: it can only move them to a later position.                        *)
LEMMA RankGrows ==
  ASSUME NEW tb, NEW tc, NEW n \in Nat, DOMAIN tb = 1 .. n, DOMAIN tc = 1 .. n + 1,
         \A i \in DOMAIN tb : tc[i] = tb[i], NEW q, NEW i \in DOMAIN tb
  PROVE  /\ i \in MatchingIn(tc, q) <=> i \in MatchingIn(tb, q)
         /\ RankIn(tb, q, i) <= RankIn(tc, q, i)
         /\ TiedIn(tb, q, i) => TiedIn(tc, q, i)
<1>1. MatchingIn(tb, q) = MatchingIn(tc, q) \cap DOMAIN tb
  BY DEF MatchingIn
<1>2. BeforeIn(tb, q, i) \in SUBSET BeforeIn(tc, q, i)
  BY <1>1 DEF BeforeIn, MatchingIn
<1>3. IsFiniteSet(BeforeIn(tc, q, i))
  <2>1. n + 1 \in Nat
    OBVIOUS
  <2>2. QED
    BY <2>1, RankType
<1>4. RankIn(tb, q, i) <= RankIn(tc, q, i)
  BY <1>2, <1>3, FS_Subset DEF RankIn
<1>5. TiedIn(tb, q, i) => TiedIn(tc, q, i)
  BY <1>1 DEF TiedIn, MatchingIn
<1>6. QED
  BY <1>1, <1>4, <1>5

(* A row with a created_at of its own is among the first n rows in every    *)
(* order the sort allows, or in none.                                       *)
LEMMA AmongFirst ==
  ASSUME Inv, NEW q, NEW n \in Nat, NEW A \in FirstRows(q, n), NEW i \in Matching(q),
         ~TiedIn(table, q, i)
  PROVE  i \in A <=> RankIn(table, q, i) < n
<1> DEFINE M == Matching(q)
           below == BeforeIn(table, q, i)
<1>1. Len(table) \in Nat /\ DOMAIN table = 1 .. Len(table) /\ M = MatchingIn(table, q)
  BY ListingOfTable DEF Inv
<1>2. IsFiniteSet(M) /\ IsFiniteSet(below) /\ Cardinality(below) \in Nat
      /\ RankIn(table, q, i) = Cardinality(below)
  BY <1>1, RankType DEF RankIn
<1>3. Cardinality(M) \in Nat
  BY <1>2, FS_CardinalityType
<1>4. /\ A \subseteq M
      /\ Cardinality(A) = IF n < Cardinality(M) THEN n ELSE Cardinality(M)
      /\ \A j \in A, k \in M \ A : ~_history_order_by(q, k, j)
  BY DEF FirstRows
<1>5. IsFiniteSet(A) /\ Cardinality(A) \in Nat
  BY <1>2, <1>4, FS_Subset, FS_CardinalityType
<1>6. below = {k \in M : _history_order_by(q, k, i)}
  BY ListingOfTable
<1>7. i \notin below
  <2>1. table[i].created_at \in Nat
    BY RowsAreEvents DEF Inv, Matching
  <2>2. QED
    BY <2>1 DEF BeforeIn
<1>8. \A k \in M : k = i \/ _history_order_by(q, k, i) \/ _history_order_by(q, i, k)
  <2>1. \A k \in M : table[k].created_at \in Nat
    BY RowsAreEvents DEF Inv, Matching
  <2>2. \A k \in M : k # i => table[k].created_at # table[i].created_at
    BY <1>1 DEF TiedIn
  <2>3. QED
    BY <2>1, <2>2 DEF _history_order_by
<1> HIDE DEF M, below
<1>9. i \in M
  BY DEF M
<1>10. ASSUME i \in A
       PROVE  Cardinality(below) < n
  <2>1. below \in SUBSET (A \ {i})
    BY <1>4, <1>6, <1>7, <1>10
  <2>2. IsFiniteSet(A \ {i}) /\ Cardinality(A \ {i}) = Cardinality(A) - 1
    BY <1>5, <1>10, FS_RemoveElement
  <2>3. Cardinality(below) <= Cardinality(A) - 1
    BY <2>1, <2>2, FS_Subset
  <2>4. QED
    BY <1>2, <1>3, <1>4, <1>5, <2>3
<1>11. ASSUME i \notin A
       PROVE  n <= Cardinality(below)
  <2>1. A \in SUBSET below
    BY <1>4, <1>6, <1>8, <1>9, <1>11
  <2>2. Cardinality(A) <= Cardinality(below)
    BY <1>2, <2>1, FS_Subset
  <2>3. below \in SUBSET (M \ {i})
    BY <1>6, <1>7
  <2>4. IsFiniteSet(M \ {i}) /\ Cardinality(M \ {i}) = Cardinality(M) - 1
    BY <1>2, <1>9, FS_RemoveElement
  <2>5. Cardinality(below) <= Cardinality(M) - 1
    BY <2>3, <2>4, FS_Subset
  <2>6. QED
    BY <1>2, <1>3, <1>4, <1>5, <2>2, <2>5
<1>12. QED
  BY <1>2, <1>10, <1>11

(* What is on a page: of the rows with a created_at of their own, those     *)
(* whose position is in the window; and no row at all is behind a page that *)
(* is not full.                                                             *)
LEMMA PageHolds ==
  ASSUME Inv, NEW q \in Query, NEW offset \in Nat, NEW page \in Page(q, offset)
  PROVE  /\ page \subseteq Matching(q)
         /\ \A i \in Matching(q) :
              /\ ~TiedIn(table, q, i)
              /\ RankIn(table, q, i) >= offset /\ RankIn(table, q, i) < offset + q.limit
              => i \in page
         /\ Cardinality(page) < q.limit =>
              \A i \in Matching(q) : RankIn(table, q, i) < offset + q.limit
<1> DEFINE M == Matching(q)
           l == q.limit
<1>1. l \in Nat /\ l > 0
  BY QueryAssumption DEF HistoryListQuery
<1>2. PICK A \in FirstRows(q, offset) :
        page \in {B \ A : B \in {C \in FirstRows(q, offset + l) : A \subseteq C}}
  BY DEF Page
<1>3. PICK B \in FirstRows(q, offset + l) : A \subseteq B /\ page = B \ A
  BY <1>2
<1>4. Len(table) \in Nat /\ DOMAIN table = 1 .. Len(table) /\ M = MatchingIn(table, q)
  BY ListingOfTable DEF Inv
<1>5. IsFiniteSet(M) /\ \A i : RankIn(table, q, i) \in Nat
  BY <1>4, RankType
<1>6. Cardinality(M) \in Nat
  BY <1>5, FS_CardinalityType
<1>7. /\ A \subseteq M /\ Cardinality(A) = IF offset < Cardinality(M) THEN offset ELSE Cardinality(M)
      /\ B \subseteq M
      /\ Cardinality(B) = IF offset + l < Cardinality(M) THEN offset + l ELSE Cardinality(M)
  BY DEF FirstRows
<1>8. ASSUME NEW i \in M, ~TiedIn(table, q, i), RankIn(table, q, i) >= offset,
             RankIn(table, q, i) < offset + l
      PROVE  i \in page
  <2>1. i \in B
    BY <1>1, <1>8, AmongFirst
  <2>2. i \notin A
    BY <1>5, <1>8, AmongFirst
  <2>3. QED
    BY <1>3, <2>1, <2>2
<1>9. ASSUME Cardinality(page) < l, NEW i \in M
      PROVE  RankIn(table, q, i) < offset + l
  <2>1. IsFiniteSet(B)
    BY <1>5, <1>7, FS_Subset
  <2>2. Cardinality(B \ A) = Cardinality(B) - Cardinality(B \cap A)
    BY <2>1, FS_Difference
  <2>3. B \cap A = A
    BY <1>3
  <2>4. Cardinality(M) < offset + l
    <3> HIDE DEF M, l
    <3>1. QED
      BY <1>1, <1>3, <1>6, <1>7, <1>9, <2>2, <2>3
  <2>5. RankIn(table, q, i) <= Cardinality(M)
    <3>1. BeforeIn(table, q, i) \in SUBSET M
      BY <1>4 DEF BeforeIn
    <3>2. QED
      BY <1>5, <3>1, FS_Subset DEF RankIn
  <2>6. QED
    BY <1>1, <1>5, <1>6, <2>4, <2>5
<1>10. QED
  BY <1>3, <1>7, <1>8, <1>9

-----------------------------------------------------------------------------
(* The walk over the pages. *)

(* Steps that leave the table and the client alone. *)
LEMMA WalkUndisturbed ==
  ASSUME Inv, UNCHANGED <<table, walk>>
  PROVE  WalkInv'
BY DEF Inv, WalkInv, Matching, MatchingIn, BeforeIn, RankIn, TiedIn

(* A row committed between two pages: every entry the client still has to   *)
(* read is listed where it was, or further back, and ties stay ties.        *)
LEMMA CommitKeepsWalk ==
  ASSUME Inv, NEW r \in Row, table' = Append(table, r), walk' = walk
  PROVE  WalkInv'
<1> DEFINE n == Len(table)
           q == walk.query
<1>1. /\ n \in Nat /\ DOMAIN table = 1 .. n /\ DOMAIN table' = 1 .. n + 1
      /\ \A i \in DOMAIN table : table'[i] = table[i]
  BY TableGrows DEF Inv
<1>2. DOMAIN table \subseteq DOMAIN table'
  BY <1>1
<1>3. Matching(q) = MatchingIn(table, q) /\ Matching(q)' = MatchingIn(table', q)
  BY DEF Matching, MatchingIn
<1>4. ASSUME walk.pc # "idle"
      PROVE  /\ walk.seen \subseteq Matching(q)'
             /\ \A i \in Matching(q)' \cap walk.known :
                  /\ walk.pc = "done" \/ RankIn(table', q, i) < walk.offset
                  /\ ~TiedIn(table', q, i)
                  => i \in walk.seen
  <2>1. /\ walk.seen \subseteq DOMAIN table /\ walk.known \subseteq DOMAIN table
        /\ walk.seen \subseteq MatchingIn(table, q) /\ walk.offset \in Nat
        /\ \A i \in MatchingIn(table, q) \cap walk.known :
             /\ walk.pc = "done" \/ RankIn(table, q, i) < walk.offset
             /\ ~TiedIn(table, q, i)
             => i \in walk.seen
    BY <1>3, <1>4 DEF Inv, WalkInv
  <2>2. \A i \in DOMAIN table : /\ i \in MatchingIn(table', q) <=> i \in MatchingIn(table, q)
                                /\ RankIn(table, q, i) <= RankIn(table', q, i)
                                /\ TiedIn(table, q, i) => TiedIn(table', q, i)
    BY <1>1, RankGrows
  <2>3. \A i : RankIn(table, q, i) \in Nat /\ RankIn(table', q, i) \in Nat
    <3>1. n + 1 \in Nat
      BY <1>1
    <3>2. QED
      BY <1>1, <3>1, RankType
  <2> HIDE DEF q, n
  <2>4. QED
    BY <1>3, <2>1, <2>2, <2>3
<1>5. QED
  BY <1>2, <1>4 DEF Inv, WalkInv

(* A client that starts has read nothing, and nothing is listed before the  *)
(* first row.                                                               *)
LEMMA StartKeepsWalk ==
  ASSUME Inv, NEW q \in Query, StartWalk(q)
  PROVE  WalkInv'
<1>1. /\ table' = table
      /\ walk' = [pc |-> "paging", query |-> q, offset |-> 0, known |-> DOMAIN table, seen |-> {}]
  BY DEF StartWalk
<1>2. walk' \in [pc : {"idle", "paging", "done"}, query : Query \cup {NULL}, offset : Nat,
                 known : SUBSET (DOMAIN table), seen : SUBSET (DOMAIN table)]
  BY <1>1
<1>3. \A i : RankIn(table', q, i) \in Nat
  BY <1>1, RankType DEF Inv
<1>4. /\ walk'.pc = "paging" /\ walk'.query = q /\ walk'.offset = 0 /\ walk'.seen = {}
  BY <1>1
<1>5. QED
  BY <1>1, <1>2, <1>3, <1>4 DEF WalkInv

(* The next page: the entries from offset to offset + limit are read, and a *)
(* page that is not full has nothing behind it.                             *)
LEMMA PageKeepsWalk ==
  ASSUME Inv, _list_history
  PROVE  WalkInv'
<1> DEFINE q == walk.query
           rank(i) == RankIn(table, q, i)
<1>1. walk.pc = "paging" /\ table' = table
  BY DEF _list_history
<1>2. PICK page \in Page(q, walk.offset) :
        walk' = [walk EXCEPT !.pc = IF Cardinality(page) < q.limit THEN "done" ELSE "paging",
                             !.offset = @ + q.limit, !.seen = @ \cup page]
  BY DEF _list_history
<1>3. /\ q \in Query /\ walk.seen \subseteq Matching(q) /\ walk.offset \in Nat
      /\ walk.known \subseteq DOMAIN table
      /\ \A i \in Matching(q) \cap walk.known :
           rank(i) < walk.offset /\ ~TiedIn(table, q, i) => i \in walk.seen
  BY <1>1 DEF Inv, WalkInv
<1>4. q.limit \in Nat /\ q.limit > 0
  BY <1>3, QueryAssumption DEF HistoryListQuery
<1>5. Matching(q) \subseteq DOMAIN table
  BY DEF Matching
<1>6. \A i : rank(i) \in Nat
  BY RankType DEF Inv
<1>7. /\ page \subseteq Matching(q)
      /\ \A i \in Matching(q) :
           ~TiedIn(table, q, i) /\ rank(i) >= walk.offset /\ rank(i) < walk.offset + q.limit
           => i \in page
      /\ Cardinality(page) < q.limit => \A i \in Matching(q) : rank(i) < walk.offset + q.limit
  BY <1>2, <1>3, PageHolds
<1>8. /\ walk'.pc = IF Cardinality(page) < q.limit THEN "done" ELSE "paging"
      /\ walk'.query = q /\ walk'.offset = walk.offset + q.limit
      /\ walk'.known = walk.known /\ walk'.seen = walk.seen \cup page
      /\ walk' \in [pc : {"idle", "paging", "done"}, query : Query \cup {NULL}, offset : Nat,
                    known : SUBSET (DOMAIN table), seen : SUBSET (DOMAIN table)]
  <2>1. walk \in [pc : {"idle", "paging", "done"}, query : Query \cup {NULL}, offset : Nat,
                   known : SUBSET (DOMAIN table), seen : SUBSET (DOMAIN table)]
    BY DEF Inv, WalkInv
  <2>2. walk.offset + q.limit \in Nat /\ walk.seen \cup page \in SUBSET (DOMAIN table)
    BY <1>3, <1>4, <1>5, <1>7
  <2>3. QED
    BY <1>2, <2>1, <2>2
<1>9. Matching(q)' = Matching(q) /\ q' = q
  <2>1. q' = q
    BY <1>8
  <2>2. QED
    BY <1>1, <2>1 DEF Matching
<1> HIDE DEF q, rank
<1>10. \A i \in Matching(q) \cap walk.known :
         /\ walk'.pc = "done" \/ rank(i) < walk.offset + q.limit
         /\ ~TiedIn(table, q, i)
         => i \in walk.seen \cup page
  BY <1>3, <1>4, <1>6, <1>7, <1>8
<1>11. QED
  BY <1>1, <1>3, <1>7, <1>8, <1>9, <1>10 DEF WalkInv, q, rank

-----------------------------------------------------------------------------
(* The invariant holds in every state. *)

(* Before the first transaction nothing is there. *)
LEMMA InvInit == Init => Inv
<1> SUFFICES ASSUME Init
             PROVE  Inv
  OBVIOUS
<1>1. table = <<>> /\ Len(table) = 0 /\ DOMAIN table = {} /\ table \in Seq(Row)
  BY DEF Init
<1>2. /\ clock = 1 /\ txn = [x \in Txn |-> NULL] /\ behind = [x \in Txn |-> 0]
      /\ refused = NULL /\ walk = NoWalk
  BY DEF Init
<1>3. ClockInv /\ BehindInv /\ RealTimeOrder /\ RefusedOnlyOutOfRange
  BY <1>1, <1>2 DEF ClockInv, BehindInv, RealTimeOrder, RefusedOnlyOutOfRange
<1>4. WalkInv
  BY <1>1, <1>2 DEF WalkInv, NoWalk
<1>5. QED
  BY <1>1, <1>2, <1>3, <1>4, BoundAssumption DEF Inv

(* The end of a transaction, with a row or without. *)
LEMMA CommitKeepsInv ==
  ASSUME Inv, NEW x \in Txn, NEW e \in Recorded, Commit(x, e)
  PROVE  Inv'
<1>1. /\ txn[x] # NULL /\ txn' = [txn EXCEPT ![x] = NULL] /\ behind' = [behind EXCEPT ![x] = 0]
      /\ clock' = clock /\ walk' = walk
  BY DEF Commit
<1>2. CASE /\ table' = Append(table, TaskHistory(e, txn[x], behind[x]))
           /\ refused' = NULL
  <2>1. TaskHistory(e, txn[x], behind[x]) \in Row
    BY <1>1 DEF Inv, Row
  <2>2. WalkInv'
    BY <1>1, <1>2, <2>1, CommitKeepsWalk
  <2>3. /\ ClockInv' /\ BehindInv' /\ RealTimeOrder' /\ table' \in Seq(Row)
        /\ txn' \in [Txn -> Nat \cup {NULL}] /\ behind' \in [Txn -> Nat]
    BY <1>1, <1>2, CommitKeepsTimes
  <2>4. QED
    BY <1>1, <1>2, <2>2, <2>3 DEF Inv, RefusedOnlyOutOfRange
<1>3. CASE /\ ~(task_history_event_shape(e.event_type, Columns(e)) /\ Storable(Columns(e)))
           /\ refused' = e /\ table' = table
  <2>1. e \in Event
    BY RecordedAssumption
  <2>2. RefusedOnlyOutOfRange'
    BY <1>3, <2>1, WritersMeetConstraint DEF RefusedOnlyOutOfRange
  <2>3. WalkInv'
    BY <1>1, <1>3, WalkUndisturbed
  <2>4. /\ ClockInv' /\ BehindInv' /\ RealTimeOrder'
        /\ txn' \in [Txn -> Nat \cup {NULL}] /\ behind' \in [Txn -> Nat]
    BY <1>1, <1>3, RefusalKeepsTimes
  <2>5. QED
    BY <1>1, <1>3, <2>2, <2>3, <2>4 DEF Inv
<1>4. QED
  BY <1>2, <1>3 DEF Commit, created_at

(* Inv is inductive. *)
LEMMA InvInductive == Inv /\ [Next]_vars => Inv'
<1> SUFFICES ASSUME Inv, [Next]_vars
             PROVE  Inv'
  OBVIOUS
<1>1. ASSUME NEW x \in Txn, Begin(x)
      PROVE  Inv'
  <2>1. UNCHANGED <<table, refused, walk>>
    BY <1>1 DEF Begin
  <2>2. WalkInv'
    BY <2>1, WalkUndisturbed
  <2>3. QED
    BY <1>1, <2>1, <2>2, BeginKeepsTimes DEF Inv, RefusedOnlyOutOfRange
<1>2. ASSUME NEW x \in Txn, NEW e \in Recorded, Commit(x, e)
      PROVE  Inv'
  BY <1>2, CommitKeepsInv
<1>3. ASSUME WalkInv', UNCHANGED <<clock, txn, behind, table, refused>>
      PROVE  Inv'
  BY <1>3 DEF Inv, ClockInv, BehindInv, RealTimeOrder, RefusedOnlyOutOfRange
<1>4. ASSUME NEW q \in Query, StartWalk(q)
      PROVE  Inv'
  BY <1>3, <1>4, StartKeepsWalk DEF StartWalk
<1>5. ASSUME _list_history
      PROVE  Inv'
  BY <1>3, <1>5, PageKeepsWalk DEF _list_history
<1>6. ASSUME UNCHANGED vars
      PROVE  Inv'
  BY <1>3, <1>6, WalkUndisturbed DEF vars
<1>7. ASSUME Tick
      PROVE  Inv'
  <2>1. clock < MaxClock /\ clock' = clock + 1 /\ UNCHANGED <<txn, behind, table, refused, walk>>
    BY <1>7 DEF Tick
  <2>2. clock' \in 1 .. MaxClock /\ clock \in Nat
    BY <2>1, BoundAssumption DEF Inv
  <2>3. ClockInv'
    BY <2>1, <2>2 DEF Inv, ClockInv
  <2>4. WalkInv'
    BY <2>1, WalkUndisturbed
  <2>5. QED
    BY <2>1, <2>2, <2>3, <2>4 DEF Inv, BehindInv, RealTimeOrder, RefusedOnlyOutOfRange
<1>8. QED
  BY <1>1, <1>2, <1>4, <1>5, <1>6, <1>7 DEF Next

(* The invariant is one. *)
LEMMA InvHolds == Spec => []Inv
BY InvInit, InvInductive, PTL DEF Spec

-----------------------------------------------------------------------------
(* Theorems. *)

(* Type correctness: rows hold event types of the schema and times between  *)
(* the first transaction and now.                                           *)
THEOREM TypeCorrect == Spec => []TypeOK
<1>1. Inv => TypeOK
  <2> SUFFICES ASSUME Inv
               PROVE  TypeOK
    OBVIOUS
  <2>1. \A i \in DOMAIN table : table[i].event_type \in EventType
    BY RowsAreEvents, EventKinds DEF Inv, EventType
  <2>2. QED
    BY <2>1 DEF Inv, ClockInv, WalkInv, TypeOK
<1>2. QED
  BY <1>1, InvHolds, PTL

(* The CHECK constraint of the migration and the four writers agree: the    *)
(* only insert the database refuses is that of an interval that is too long *)
(* for its INTEGER column.                                                  *)
THEOREM WritersAccepted == Spec => []RefusedOnlyOutOfRange
<1>1. Inv => RefusedOnlyOutOfRange
  BY DEF Inv
<1>2. QED
  BY <1>1, InvHolds, PTL

(* entry_from_row undoes the writers: the API shows every event as it was   *)
(* recorded.                                                                *)
THEOREM ReadBack == Spec => []ReadBackAsWritten
<1>1. Inv => ReadBackAsWritten
  BY RowsAreEvents DEF Inv, ReadBackAsWritten
<1>2. QED
  BY <1>1, InvHolds, PTL

(* The listed order respects real time. *)
THEOREM RealTimeOrdered == Spec => []RealTimeOrder
<1>1. Inv => RealTimeOrder
  BY DEF Inv
<1>2. QED
  BY <1>1, InvHolds, PTL

(* Reading page after page, until a page is not full, returns no entry that *)
(* was not asked for, and skips none that was there at the start, unless it *)
(* shares its created_at with another row of the listing (which has no      *)
(* second sort key): however many rows are committed in between, wherever   *)
(* they are listed, and whatever the order of ties on each page.            *)
THEOREM NothingSkipped == Spec => []NoEntrySkipped
<1>1. Inv => NoEntrySkipped
  <2> SUFFICES ASSUME Inv, walk.pc = "done"
               PROVE  /\ walk.seen \cap walk.known \subseteq Wanted(walk.query)
                      /\ \A i \in Wanted(walk.query) \ walk.seen : Tied(walk.query, i)
    BY DEF NoEntrySkipped
  <2> DEFINE q == walk.query
  <2>1. /\ q \in Query /\ walk.seen \subseteq Matching(q) /\ walk.known \subseteq DOMAIN table
        /\ \A i \in Matching(q) \cap walk.known : ~TiedIn(table, q, i) => i \in walk.seen
    BY DEF Inv, WalkInv
  <2>2. \A i : TiedIn(table, q, i) <=> Tied(q, i)
    BY ListingOfTable
  <2>3. /\ q.since \in Nat \cup {NULL} /\ q.until \in Nat \cup {NULL}
    BY <2>1, QueryAssumption DEF HistoryListQuery
  <2>4. clock \in Nat /\ \A i \in DOMAIN table : table[i].created_at \in 1 .. clock
    BY BoundAssumption DEF Inv, ClockInv
  <2>5. ASSUME NEW i \in walk.known
        PROVE  _history_filters(q, table[i]) <=> i \in Wanted(q)
    <3>1. /\ (q.task_id # NULL => table[i].task = q.task_id) <=> q.task_id \in {NULL, table[i].task}
          /\ (q.event_type # NULL => table[i].event_type = q.event_type)
               <=> q.event_type \in {NULL, table[i].event_type}
      OBVIOUS
    <3>2. table[i].created_at \in 1 .. clock
      BY <2>1, <2>4
    <3>3. (q.since # NULL => table[i].created_at >= q.since)
            /\ (q.until # NULL => table[i].created_at <= q.until)
          <=> table[i].created_at \in (IF q.since = NULL THEN 0 ELSE q.since) ..
                                      (IF q.until = NULL THEN clock ELSE q.until)
      BY <2>3, <2>4, <3>2, NullAssumption
    <3>4. QED
      BY <3>1, <3>3 DEF _history_filters, Wanted
  <2>6. Wanted(q) = Matching(q) \cap walk.known
    BY <2>1, <2>5 DEF Matching, Wanted
  <2> HIDE DEF q
  <2>7. QED
    BY <2>1, <2>2, <2>6 DEF q
<1>2. QED
  BY <1>1, InvHolds, PTL
=============================================================================
