----------------------------- MODULE TaskAudit ------------------------------
(***************************************************************************)
(* What the task table promises to a reader of the audit history: the       *)
(* status of a task and its log change together, in one atomic step, and    *)
(* only in the ways listed here.  There are no requests, transactions,      *)
(* schedules, jobs, clock or failures at this level.                        *)
(***************************************************************************)
EXTENDS Sequences

CONSTANT Task

VARIABLES
  status,  \* [Task -> "absent", "active" or "inactive"]
  once,    \* [Task -> is it a once task]
  log      \* [Task -> sequence of events]

audit == <<status, once, log>>

Known(t) == log[t] # <<>>

AuditInit ==
  /\ status = [t \in Task |-> "absent"]
  /\ once = [t \in Task |-> FALSE]
  /\ log = [t \in Task |-> <<>>]

Record(t, e, s) ==
  /\ log' = [log EXCEPT ![t] = Append(@, e)]
  /\ status' = [status EXCEPT ![t] = s]

(* A task is created active, once in its life. *)
Create(t) ==
  /\ ~Known(t)
  /\ Record(t, "task_created", "active")
  /\ \E b \in BOOLEAN : once' = [once EXCEPT ![t] = b]

(* A row that exists may be resumed or paused, possibly by two requests     *)
(* that both read it in the other state.                                    *)
SetActive(t) ==
  /\ status[t] # "absent"
  /\ \/ Record(t, "task_activated", "active")
     \/ Record(t, "task_deactivated", "inactive")
  /\ UNCHANGED once

(* Deletion; a second concurrent delete repeats the event. *)
Remove(t) ==
  /\ Known(t)
  /\ Record(t, "task_deleted", "absent")
  /\ UNCHANGED once

(* A webhook call ends.  Only the scheduled success of a once task touches  *)
(* the row, and it is never recorded for a row that is gone.                *)
Execute(t) ==
  /\ Known(t)
  /\ \/ \E e \in {"scheduled_failed", "manual_ok", "manual_failed"} : Record(t, e, status[t])
     \/ ~once[t] /\ Record(t, "scheduled_ok", status[t])
     \/ once[t] /\ status[t] # "absent" /\ Record(t, "scheduled_ok", "inactive")
  /\ UNCHANGED once

AuditNext == \E t \in Task : Create(t) \/ SetActive(t) \/ Remove(t) \/ Execute(t)

AuditSpec == AuditInit /\ [][AuditNext]_audit
=============================================================================
