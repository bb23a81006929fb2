------------------------------ MODULE Lifespan ------------------------------
(***************************************************************************)
(* The life of the service: the lifespan of app/main.py around the sessions *)
(* of DbSession.  Start-up connects with retries (app/db/engine.py), enters *)
(* the scheduler, initialises the executor (app/scheduler/service.py) and   *)
(* only then starts the scheduler; shutdown closes the HTTP client, leaves  *)
(* the scheduler and disposes of the engine, in this order.                 *)
(***************************************************************************)
EXTENDS DbSession

CONSTANT ConnectRetries   \* settings.db.connect_retries

ASSUME RetriesAssumption == ConnectRetries \in Nat \ {0}

VARIABLES
  phase,      \* where lifespan is
  attempts,   \* failed attempts of async_creator
  executor,   \* init_executor has been called
  client      \* the HTTP client: "none", "open" or "closed"

lifespanVars == <<phase, attempts, executor, client>>
vars == <<sessionVars, lifespanVars>>

Phase == {"create_db", "enter", "configured", "up", "draining", "closing", "stopped",
          "disposed", "failed"}

Init ==
  /\ SessionInit
  /\ phase = "create_db" /\ attempts = 0
  /\ executor = FALSE /\ client = "none"

(* Mutant: retries are counted without the first attempt. *)
CreateDbOnceMore ==
  /\ phase = "create_db"
  /\ \/ phase' = "enter" /\ UNCHANGED attempts
     \/ /\ attempts' = attempts + 1
        /\ phase' = IF attempts = ConnectRetries THEN "failed" ELSE phase
     \/ phase' = "failed" /\ UNCHANGED attempts
  /\ UNCHANGED <<sessionVars, executor, client>>

(* create_db: SELECT 1 over a connection that async_creator opens, with up  *)
(* to ConnectRetries attempts before DatabaseConnectionError; an exception  *)
(* of another kind is not retried.                                          *)
create_db ==
  /\ phase = "create_db"
  /\ \/ phase' = "enter" /\ UNCHANGED attempts
     \/ /\ attempts' = attempts + 1
        /\ phase' = IF attempts + 1 = ConnectRetries THEN "failed" ELSE phase
     \/ phase' = "failed" /\ UNCHANGED attempts
  /\ UNCHANGED <<sessionVars, executor, client>>

(* create_scheduler, the HTTP client, the scheduler's context and           *)
(* configure_scheduler: init_executor, then configure_task.  It may fail on *)
(* entering the context, or in configure_task when the executor is set; the *)
(* client stays open.                                                       *)
configure_scheduler ==
  /\ phase = "enter"
  /\ client' = "open"
  /\ \/ phase' = "configured" /\ executor' = TRUE
     \/ phase' = "failed" /\ executor' \in BOOLEAN
  /\ UNCHANGED <<sessionVars, attempts>>

(* Mutant: the scheduler is started before it is configured. *)
StartUnconfigured ==
  /\ phase \in {"enter", "configured"}
  /\ phase' = "up"
  /\ UNCHANGED <<sessionVars, attempts, executor, client>>

(* The scheduler is started, or its start raises and the context is left. *)
start_in_background ==
  /\ phase = "configured"
  /\ phase' \in {"up", "failed"}
  /\ UNCHANGED <<sessionVars, attempts, executor, client>>

(* The server stops accepting requests and lets the ones in flight end      *)
(* before it resumes lifespan (external).                                   *)
Shutdown ==
  /\ phase = "up"
  /\ phase' = "draining"
  /\ UNCHANGED <<sessionVars, attempts, executor, client>>

aclose ==
  /\ phase = "draining"
  /\ \A r \in Request : proc[r].pc = "idle"
  /\ phase' = "closing" /\ client' = "closed"
  /\ UNCHANGED <<sessionVars, attempts, executor>>

(* Mutant: the scheduler is left running when its context ends. *)
StopLeavesJobs ==
  /\ phase = "closing"
  /\ phase' = "stopped"
  /\ UNCHANGED <<sessionVars, attempts, executor, client>>

(* Leaving the scheduler's context stops it; jobs still running are         *)
(* cancelled and their sessions closed (external).                          *)
StopScheduler ==
  /\ phase = "closing"
  /\ phase' = "stopped"
  /\ conn' = [c \in Conn |-> IF conn[c].holder \in Job THEN Free ELSE conn[c]]
  /\ proc' = [p \in Proc |-> IF p \in Job THEN Idle ELSE proc[p]]
  /\ UNCHANGED <<role, attempts, executor, client>>

dispose ==
  /\ phase = "stopped"
  /\ phase' = "disposed"
  /\ UNCHANGED <<sessionVars, attempts, executor, client>>

-----------------------------------------------------------------------------
(* Requests are accepted while the service is up; jobs are acquired until   *)
(* the scheduler stops.                                                     *)
Accept ==
  /\ phase = "up"
  /\ \E r \in Request, kind \in {"health", "read", "change", "run"},
        u \in User \cup {NULL}, t \in Task \cup {NULL} : dispatch(r, kind, u, t)
  /\ UNCHANGED lifespanVars

Acquire ==
  /\ phase \in {"up", "draining", "closing"}
  /\ \E j \in Job, t \in Task : execute_scheduled_task(j, t)
  /\ UNCHANGED lifespanVars

(* A webhook call needs the client: when it is closed, get raises a         *)
(* RuntimeError, which fire_task_webhook does not catch.                    *)
WebhookFails(p) == client = "closed" /\ proc[p].pc = "using"

Proceed(p) ==
  /\ Step(p)
  /\ WebhookFails(p) => proc'[p].pc = "idle"
  /\ UNCHANGED lifespanVars

LifespanStep ==
  \/ create_db
  \/ configure_scheduler
  \/ start_in_background
  \/ aclose
  \/ StopScheduler
  \/ dispose

Next ==
  \/ LifespanStep
  \/ Shutdown
  \/ Accept
  \/ Acquire
  \/ \E p \in Proc : Proceed(p)

(* What was started goes on: every process (a wait for a connection ends by *)
(* the pool's timeout, a webhook by the client's), start-up and shutdown.   *)
(* Nobody has to send requests or stop the service.                         *)
Spec == Init /\ [][Next]_vars /\ WF_vars(LifespanStep) /\ \A p \in Proc : WF_vars(Proceed(p))

-----------------------------------------------------------------------------
TypeOK ==
  /\ SessionTypeOK
  /\ phase \in Phase
  /\ attempts \in 0 .. ConnectRetries
  /\ executor \in BOOLEAN
  /\ client \in {"none", "open", "closed"}

(* _require_executor and the None test of the session factory never raise:  *)
(* no process runs before init_executor; and a request's manual run always  *)
(* finds the HTTP client open.  (A job dispatched while the service closes  *)
(* may not.)                                                                *)
ExecutorReady ==
  \A p \in Proc : proc[p].pc # "idle" =>
    /\ executor
    /\ p \in Request => client = "open"

(* The engine is disposed of when nobody uses it any more. *)
DisposedWhenUnused ==
  phase \in {"create_db", "enter", "configured", "disposed", "failed"} =>
    FreeConn = Conn /\ \A p \in Proc : proc[p] = Idle

(* A service that was told to stop gets there, however its requests and     *)
(* jobs wait for each other's connections.                                  *)
ShutdownCompletes == phase = "draining" ~> phase = "disposed"
=============================================================================
