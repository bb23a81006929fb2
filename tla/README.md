# TLA+ models of schedulerlm

schedulerlm is a FastAPI service that stores webhook tasks in PostgreSQL, turns
natural-language schedules into triggers with a language model, and lets
APScheduler fire the webhooks. This directory holds TLA+ specifications of its
core, TLC configurations that check them on small instances, and TLAPS proofs of
the main safety results for every instance.

Paths below are relative to the repository's root (`app/...`).

## Inventory

| component | state it keeps | operations | what makes it correct |
|---|---|---|---|
| task routes (`app/routes/tasks.py`) | `scheduled_tasks` rows, written in the request's session | create, activate, deactivate, delete, run; list, get, preview | row and history change together; deletion is final; `next_run_at` agrees with `is_active` |
| request transaction (`app/db/dependencies.py`) | the open session | commit or rollback when the dependency is left | nothing half-written, whatever fails |
| scheduler service (`app/scheduler/service.py`) | none of its own; calls APScheduler | register, unregister, as background tasks | a schedule exists exactly for active tasks |
| executor (`app/scheduler/executor.py`) | a session per job | load, webhook, record, deactivate once tasks, remove their schedule | every fire recorded; once tasks fire once |
| triggers (`app/scheduler/triggers.py`) | none | build a trigger, next fire time, upcoming times | fire times are right |
| audit history (`app/services/task_history.py`, `task_history` table) | append-only events | one `record_*` per kind of event | explains the table |
| trigger parsing (`app/services/trigger_parse.py`, `app/schemas/trigger_parse.py`) | conversation, attempt number | local parse, completion in three formats, retry with correction | ends within its budget; accepts only what can be scheduled; fails with 422 |
| relative schedules (`app/parsing/relative_schedule.py`) | none | phrase to `run_at` | the day, time and delay that the phrase says |
| APScheduler (library) | schedules and jobs, in the same database but other transactions | add, remove, dispatch due schedules | external |
| prompt loader (`app/prompts/loader.py`) | none | load the template, fill in worked examples | the examples agree with the local parser |
| history routes (`app/routes/history.py`, `app/schemas/history.py`) | none | filtered, ordered, paginated listing; entries rebuilt from columns | an entry shows what was recorded; no entry is skipped, ties of `created_at` apart |
| row scope and row-level security (`app/db/scope.py`, `app/db/rls.py`, policies of the migrations) | `app.*` settings of a transaction, `session.info` | set settings, add criteria to SELECTs | a user sees and changes only his own rows; the executor sees all |
| engine and pool (`app/db/engine.py`) | pooled connections | connect with retries, check out, return, time out | every connection comes back; nobody waits for ever |
| lifespan (`app/main.py`) | engine, scheduler, HTTP client, executor globals | start-up, shutdown | nothing is used before it is ready or after it is closed |
| authentication, migrations, settings, logging, health | see *Not modelled* | | |

How they interact. A handler reads a row and leaves its writes pending in the
session. Its scheduler call is a background task, its commit is the exit of the
`get_db` dependency; with the FastAPI release in `uv.lock` (0.136) the response
and its background tasks are finished first, and the commit comes last. Jobs run
in the same event loop with sessions of their own. No transaction spans the
task table and the schedule store, nothing locks a row between reading and
writing it, and nothing compares the stores at start-up. What is hard is
therefore the order of these steps, their failure one by one, and state that is
read before an `await` and used after it. `PROJECT.json` lists each such place
under `hazards`.

## Modules

| module | models |
|---|---|
| `Triggers` | trigger kinds, `compute_next_run_at`, APScheduler's next fire time |
| `TaskLifecycle` | routes, request transaction, scheduler service, executor, crash |
| `TaskAudit` | abstract specification: what table and history promise together |
| `TaskLifecycleProofs` | theorems about `TaskLifecycle`: types, audit trail, refinement of `TaskAudit`, `next_run_at` |
| `StoreAgreementProofs` | theorems about `TaskLifecycle`: table and schedule store |
| `TriggerParse` | the parsing of a trigger text |
| `RelativeSchedule` | operators: the local parser of relative phrases and the prompt loader's arithmetic; used by `TriggerParse` |
| `TriggerParseProofs` | theorems about `TriggerParse` and `RelativeSchedule` |
| `HistoryLog` | the history table: columns, constraint, `created_at`, listing and pages |
| `HistoryLogProofs` | theorems about `HistoryLog` |
| `DbSession` | sessions of requests and jobs: pool, settings, policies, loader criteria |
| `Lifespan` | start-up and shutdown, composed with `DbSession` |
| `LifespanProofs` | theorems about `DbSession` and `Lifespan` together |
| `MC...` | definitions for TLC: small sets, symmetry |

Operators named *Mutant* in a comment are faulty variants of the definition that
follows them. They are used by no specification; substituting one for the
definition shows that a property notices the fault (`mutants` in `PROJECT.json`).

### Triggers

A trigger is `[type, n]`: the instant of a once trigger, the period of an
interval, the period of a cron expression, with `n = 0` for an expression that
never matches (`0 0 30 2 *`). `compute_next_run_at` keeps the differences that
matter: a `DateTrigger` returns its instant even when it has passed, an
`IntervalTrigger` starts at the moment it is built, so every registration fires
at once, and a `CronTrigger` may have no next time. The `trigger_config` column
holds the same instant, expression or period, so that reading it back builds the
same trigger; the model keeps the trigger itself. `NextFire` is APScheduler's
side: after a dispatch the missed fire times have been coalesced into one.
`compute_upcoming_run_times` is the preview of `GET /tasks/{id}/schedule`. It
builds the trigger anew, so that an interval's preview starts its phase at the
call, while the schedule keeps the phase of its registration:
`PreviewMatchesSchedule` is claimed for once and cron triggers.

### TaskLifecycle

| variable | stands for |
|---|---|
| `now` | wall clock, in ticks |
| `trigger` | `trigger_type` and `trigger_config` of each task id |
| `row` | committed `is_active` and `next_run_at`, or no row |
| `history` | committed events of each task, in commit order |
| `sched` | next fire time of the schedule in APScheduler's store |
| `req` | requests in flight: handler, task, background task, the `next_run_at` to be written, and which step is next |
| `job` | jobs: queued, with the webhook running, or about to remove the schedule |

| action | code |
|---|---|
| `create_task` ... `run_task` | a handler from its first read to its return; answers without a write (404, 422, nothing to do) are no steps |
| `register_schedule`, `unregister_schedule`, `BackgroundFails` | the background task; it may fail with or without having taken effect, and then the request's transaction rolls back |
| `Commit`, `Rollback` | the exit of `get_db`; an UPDATE of a row that is gone raises in SQLAlchemy's unit of work, a DELETE of one only warns |
| `run_task_manually`, `RecordManualRun` | the second load, and the execution event that `run_task` commits |
| `Dispatch` | APScheduler queues a due schedule (external) |
| `LoadTask`, `RecordFailure`, `RecordSuccess`, `JobRollback`, `RemoveFiredSchedule` | `execute_scheduled_task`, cut at its `await`s; the webhook's answer is the choice between failure and success |
| `Crash` | the process dies and restarts: requests and running jobs vanish, what the database holds stays |
| `Tick` | time passes |

`CommitFirst` selects the order of background task and commit. FALSE is the
pinned order. TRUE is what the code would do if the dependency were left before
the response is sent, as earlier FastAPI releases do; the theorems cover both.

APScheduler's limit on running jobs is left out: with more `Job` slots more may
run at a time, which only adds behaviours.

### TriggerParse

Texts and answers are reduced to what the code tells apart: an answer has no
choices, or its content is empty, no JSON, JSON but no object, an object with the
wrong fields, or a value of each field of `TriggerParseLLMOutput`; a cron string
is accepted or not by the validator (`valid`) and by APScheduler (`builds`), a
date string is ISO or not. `attempt`, `format`, `calls` and `corrections` are
tenacity's attempt number, the index in `response_formats`, the completions
requested and the correction messages.

The checks an answer passes are those of the code, in its order:
`validate_type_fields`, then `trigger_spec_from_llm_output` (NULL for its
exceptions: a date that is not ISO, or seconds that `IntervalTriggerSpec` refuses
because they are not positive), then `Checked`, which is the validation of the
expression and the trial `compute_next_run_at`. The resulting spec keeps whether
its expression is valid and builds, so that `AcceptedIsSchedulable` can say it. It
is claimed for texts: structured triggers are passed on unchecked, as in the code.

The local parser and the rendering of the prompt are steps of their own, on the
operators of `RelativeSchedule`. Three failures are neither retried nor answered
with 422, and end as `crashed`: an instant that a `datetime` cannot hold
(OverflowError), a prompt file that is no UTF-8 (UnicodeDecodeError, which
`load_prompt` does not catch), and an answer without choices or that is no JSON
object (`Escapes`). Only the last is the model's doing, and `ParseFailureIs422` is
about it.

### RelativeSchedule

Instants are seconds of UTC; a zone has one change of offset. `_localize` and
`ToUTC` are `astimezone` and the reading of a wall-clock time with `fold = 0`,
which is what Python's aware arithmetic produces. A text is a `Phrase`: what the
regular expressions capture of a duration, a day, a word for a time and a clock time. `build_trigger_parse_placeholders` is the loader's second
implementation of the same days and times, and `PromptExample` the inputs that
`trigger_parse.txt` gives them for.

### HistoryLog

| variable | stands for |
|---|---|
| `clock`, `txn`, `behind` | the database's clock, the start of each open transaction, and how many rows were committed then |
| `table` | committed rows in commit order, each with the event it was written for |
| `refused` | the event whose insert the last commit was refused for |
| `walk` | a client reading page after page with one query |

`Begin` is a session's first statement, `Commit` the flush and commit of the one
event it recorded, which the constraint or the width of `interval_seconds` may
refuse; `TaskHistory` builds its row. `StartWalk` and `_list_history` are a client
that asks for pages until one is not full. `created_at` is the start of the
transaction, so that rows may appear anywhere in the listing while it is read.
`Tick` is a step of its own, so that several transactions may begin at the same
time. The listing sorts by `created_at` alone, and nothing says how the database
orders ties: `FirstRows` gives every set that the first rows can be, `Page` every
page that can follow one of them, and each request of the client gets any of these
pages. The clock of the database is assumed not to run backwards. Only whether
`webhook_url` and `execution_source` are set is kept, because the constraint looks
at no more.

### DbSession and Lifespan

A process is a request (health, read, change, manual run) or a job. It goes from
`connect` (waiting for its session's connection) over `select` to `second` (the
scheduler's store or the executor's session takes another connection of the same
pool), `using` and `end`. A connection records its holder and the two `app.*`
settings of its open transaction. `role` says whether the service's database
role bypasses row-level security, as the superuser that `docker-compose.yml`
creates does; then only the loader criteria separate users. `dispatch` accepts
what the middleware lets through, `PoolTimeout` and `ConnectFails` are the two
ways not to get a connection.

`Lifespan` adds `phase`, the attempts of `async_creator`, whether
`init_executor` ran and the HTTP client. Its actions are the statements of
`lifespan` in their order; requests are accepted while the service is up, jobs
until the scheduler stops. Each step of the start-up may fail. `configure_scheduler`
sets the executor's globals before the `await` that may fail, so that a failed
start-up may leave them set or not.

## Runs

Passing runs:

| run | instance | shows |
|---|---|---|
| `serial` | 1 task, 1 request at a time, 2 jobs, all trigger kinds, clock to 4, 5 events, no faults | the two stores and the preview agree between requests (`NoOrphanSchedule`, `ActiveIsScheduled`, `PreviewMatchesSchedule`) and a once task is attempted once (`OnceAttemptedOnce`, `FutureOnceFires`) |
| `concurrent` | 1 task, 2 requests, 2 jobs, all trigger kinds, all faults, clock to 2, 4 events | `AuditReplay`, `CreatedFirstAndOnce`, `DeletedForGood`, `NextRunMatchesStatus`, refinement of `TaskAudit` |
| `trigger_parse` | 3 attempts, 1080 field combinations, every other kind of answer, all states of the prompt file; every weekday, instants around midnight and nine, all phrase shapes | budget, acceptance, termination; days, times and delays of relative phrases; the prompt's examples |
| `history` | 2 tasks, 3 rows, 2 transactions at a time, clock to 3, 8 events, 5 queries | what is written is accepted (`RefusedOnlyOutOfRange`) and shown as recorded (`ReadBackAsWritten`); the listing respects real time (`RealTimeOrder`) and pages skip no entry that has its `created_at` to itself (`NoEntrySkipped`) |
| `service` | 2 users with a task each, 2 requests, 1 job, 2 connections, both roles, 3 connection attempts | `OwnRowsOnly`, `AuditBelongsToOwner`, `ScopeMatchesSession`, `JobsSeeEveryTask`, `OwnInsertsAccepted`, `PoolAccounting`; start-up and shutdown in order (`ExecutorReady`, `DisposedWhenUnused`); nobody waits for ever (`EveryoneAnswered`, `ShutdownCompletes`) |

Runs in which the code does not do what a document or test says:

| run | what happens |
|---|---|
| `due_once_lost` | create a once task that is already due: registered, dispatched, the job finds no row, then the row is committed; active for ever, never fired |
| `stale_next_run` | a cron task that has fired still reports the fire time that is over; a once task whose webhook failed stays active with it, and without a schedule |
| `lost_execution` | a once task is deleted while its webhook runs: the record of the execution is rolled back |
| `double_fire` | two overlapping activations, one finishing after `run_at`: the webhook is called twice |
| `race_unscheduled` | overlapping requests: scheduler calls in one order, commits in the other; active without a schedule |
| `parse_crash` | the model answers JSON that is no object, or without choices: AttributeError or IndexError, no retry, no 422 |
| `relative_dst` | "in 1 hour" across a change of offset |

Bounds. No action relates two tasks, so one task shows what any number does (the
theorems are for any number). Two requests are enough for a lost update or a
reordering; a third could only repeat one of them. `MaxEvents` stops new
requests on a task with that many events, what is in flight still ends: four
events hold create, deactivate, activate, delete, five hold a whole pause and
resume around a fire. Clock bounds reach two periods of the recurring triggers
in `serial`. Deadlock is not checked, because an idle service at the end of its
bounds may stop. In `trigger_parse` hours 0 to 13 and minutes 0, 59 and 75 are on both
sides of every comparison. In `history` two overlapping transactions and one
after them show every order of start and commit, three rows have a tie and a row
beside it in either order, all of them tied or none, and pages of one and two rows
over three have a full last page, a short one and an empty one; the column's
limit is a small number with intervals on both sides of it. `MaxClock` bounds the
clock, `MaxRows` the rows committed and the transactions open together; the two
transaction slots are interchangeable (`SYMMETRY`, no liveness is checked). In `service` two
requests that each hold a connection exhaust the pool, and the job is a third
that waits.

Fairness. A request or a job that was started goes on: the event loop runs every
coroutine, and webhook and database calls have timeouts. APScheduler dispatches
what is due, time passes. Nothing is assumed of clients. For the parser, each
step is a completion with a timeout or local computation. In `service` every
process that was started goes on, because the pool's timeout ends a wait for a
connection and the client's timeout a webhook, and so do start-up and shutdown;
that somebody stops the service is not assumed. `serial`, which checks that
tasks fire, injects no faults; `service` lets every step fail.

`NoOrphanSchedule` and `ActiveIsScheduled` hold only without overlapping requests
and faults: `race_unscheduled` shows why they are not claimed in general. A crash
between `remove_schedule` and the commit of a deactivation has the same effect,
an active row without a schedule, and nothing at start-up repairs it
(`ActiveIsScheduled` with one request and `Faults = {"crash"}`).

`next_run_at` is written by the handlers only (`stale_next_run`), which is why
`NextRunMatchesStatus` claims no more than whether the column is set. A once task
whose webhook fails is left active by the early exit of
`execute_scheduled_task`, although `app/routes/tasks.py:106` says that once tasks
deactivate after firing; it is the second way to violate `NextRunIsNextFire`.

Entries that share their `created_at` can be skipped or repeated by a client that
reads page by page, since the database may order them differently for each page.
`NoEntrySkipped` therefore leaves them out, and claims that nobody else is affected:
an entry that no other row of the listing is tied with is read, also when ties are
split by a page boundary before it and rows are committed into them.

An interval longer than the 32-bit column of the history is refused when the
request commits, after its schedule was registered: `RefusedOnlyOutOfRange` says
that this is the only event the table refuses, and the schedule left behind is the
failed commit of `concurrent`.

The policies let the scheduler insert history rows but not select them, and
SQLAlchemy reads the server default `created_at` back with RETURNING, which
requires the new row to pass the SELECT policies. With a role that does not bypass
row-level security every record of a scheduled execution would be refused.
`OwnInsertsAccepted` is therefore claimed of the executor for a bypassing role
only; of requests it is claimed for both.

A job that is dispatched between the closing of the HTTP client and the end of the
scheduler fails with a RuntimeError that `fire_task_webhook` does not catch: the
fire leaves no record. `ExecutorReady` claims the open client for requests only.

## Proofs

Every invariant that a passing run checks is also a theorem. The theorems assume
the named assumptions of the modules, which TLC evaluates in every run:

* triggers are well formed (periods of intervals are positive, which the schemas
  enforce) and bounds are natural numbers;
* `NULL` is no number, task, user, process, trigger, phrase or Boolean;
* queries, events, answers and phrases are of the shapes the schemas admit;
* `ZoneAssumption`: the change of offset lies so late that no instant is negative,
  the repeated hours of a clock that is put back included.

Two groups of theorems have a further hypothesis in their statement, given below
with its reason.

**`TaskLifecycleProofs`**, for every set of tasks, requests, jobs, triggers and
faults and for both orders of commit and background task: `TypeCorrect`,
`AuditTrailExplainsTable`, `CreationIsFirst`, `DeletionIsFinal`,
`LifecycleImplementsAudit` (the refinement of `TaskAudit`) and
`NextRunAtAgreesWithStatus`.

None of the invariants is inductive, because what a commit will write was decided
by a handler several steps earlier. The strengthening is in layers:

1. `InFlight`: a request or job in flight has a task whose trigger is set, and so
   has every row and schedule;
2. `KnownInv`: every request other than a create works on a task with a history,
   a create works on a task without one, and no two creates share a task;
   likewise for jobs that passed the load;
3. `AuditInv`: the three audit invariants together;
4. `NextKnown`: the `next_run_at` that a request will write is set exactly when
   the trigger ever fires.

`StepIsAudited` says that every step either leaves rows and histories alone or
appends exactly one event to one task in one of the ways of `TaskAudit`. The
invariants and the refinement both follow from it, without another case
distinction over the actions.

**`StoreAgreementProofs`** proves `SchedulesOwned`, `ActiveScheduled`,
`OnceAttempted` and `PreviewRight`, each in the form
`Spec /\ []NoOverlap => []P` with `Faults = {}`: no two requests in flight are
about the same task, and no call fails. Without the first hypothesis
`race_unscheduled` and `double_fire` are counterexamples, without the second a
crash between the two stores is. Requests on different tasks, and jobs on the same
task, may overlap at will, and both orders of commit and background task are
covered; `serial` is the instance with one slot. `StoreInv` is stated task by task:

1. `AgreeInv`: the stores agree when no request is about the task, and otherwise
   each request finds them where its own earlier steps left them (`StartedInv`,
   `StoppedInv`, `RunInv`, by handler and next step);
2. `FireTimeInv`: a schedule holds `run_at`, or a multiple of the cron period at
   most one period ahead;
3. `OnceInv`: once a job of a once task was dispatched, its time has passed, it has
   no schedule and no request will add one; two such jobs are the same, and a job
   under way has no attempt behind it.

The third layer is what the first needs when a job deactivates its own task, and
rests in turn on the expiry check of `activate_task`. `Untouched` disposes of all
tasks that a step is not about, so that each action is examined for one task. For
the preview, `OneMatchPerPeriod` shows that the multiple in the store is the one
that the preview computes.

**`LifespanProofs`**, for any number of users, tasks, requests, jobs, connections
and connection attempts and either role: `TypeCorrect`, `SettingsStayLocal`,
`UsersIsolated`, `AuditOwned`, `ExecutorSeesAll`, `InsertsAccepted`,
`PoolAccounted`, `ExecutorAlwaysReady` and `DisposedUnused`. The strengthening
says at which step a process holds how many connections and with which settings
(`HoldingInv`, `SessionInv`), that a connection has at most one holder
(`ConnectionInv`), and what exists in which phase of the lifespan (`PhaseInv`).
Isolation needs it because a query is answered by the settings of the connection
while the property speaks of the user of the process.

**`TriggerParseProofs`**, for every set of answers and phrases and every number of
retries: `TypeCorrect`, `AcceptedSchedulable`, `BudgetKept`, `RejectedExhausted`
and, in every zone, `PromptAgrees`. `AcceptedSchedulable` follows from the checks of
`_parse_trigger_json` for an answer, and for the local parser from the range of its
instants. `BudgetInv` relates attempt, format, calls and
corrections; `LocalInv` and `PromptInv` say that the result of the local parser and
the rendered examples are those of the operators. `InElapsed`, `NotInThePast`,
`DayRight` and `TimeRight` are proved for a zone with a fixed offset
(`Before = After`); `relative_dst` shows that the first fails across a change.
`trigger_parse` checks all four on concrete instants.

**`HistoryLogProofs`**, for any number of tasks, events, transactions, rows and
queries: `TypeCorrect`, `WritersAccepted`, `ReadBack`, `RealTimeOrdered` and
`NothingSkipped`. Every row is what a writer makes of an event, from which the first
three follow by `WritersMeetConstraint` and `EntryOfRow`. `ClockInv` says that times
of open transactions and rows are not in the future, `BehindInv` that a transaction
began no earlier than the rows it counts. `NothingSkipped` rests on `AmongFirst`: the
rank of a row is the number of rows that come before it in every order of the ties,
and a row that is not tied is among the first n rows exactly if its rank is below n,
whichever order the database takes. Hence a page holds every untied row whose rank
lies in its window (`PageHolds`), and a page that is not full has no row behind it.
`WalkInv` says that of the entries a client knows of it has read those whose rank is
below its offset, tied ones apart; it is kept because a new row can only raise the
ranks of others (`RankGrows`) and never unties them.

TLC checked each inductive invariant on the instances of the runs before it was
proved (`StoreInv` also with two tasks and two requests, under `NoOverlap`).

Only model-checked: liveness (`FutureOnceFires`, `Answered`, `EveryoneAnswered`,
`ShutdownCompletes`), since fairness and ENABLED are out of the prover's reach; the
relative phrases across a change of offset; and the runs that show a disagreement.

## Not modelled

* The checks of a signed token, settings, logging, the running of migrations: no
  state of their own, or a library's.
* `list_tasks`. It orders by one column without a tie-breaker, and rows leave its
  default listing when tasks are deactivated, so that pages may skip or repeat
  tasks; no document promises otherwise, and the order of ties is the database's.
* `total` of a listing, which is counted by a statement of its own.
* The regular expressions, the wording of prompts, HTTP details, error messages.
* The blocking completion inside an async handler: the models let other steps
  interleave with it, which covers its behaviours; its delay is outside an untimed
  model.

## Plan

Done: all modules above, and the theorems for every invariant of the passing runs.
Left:

1. Weaken the hypothesis `Faults = {}` of `StoreAgreementProofs`: a failing commit of
   a manual run or of a recurring task's job does not touch either store, and a
   separate invariant can say which store is ahead after a failure.
2. `DayRight`, `TimeRight` and `NotInThePast` for zones with a change of offset, for
   instants that are not within a day of it.
