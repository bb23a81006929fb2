SPECIFICATION Spec
CONSTANTS
  NULL = NULL
  Task = {t1}
  Request = {r1, r2}
  Job = {j1}
  Trigger <- CronOnly
  CommitFirst = FALSE
  Faults <- NoFaults
  MaxNow = 1
  MaxEvents = 5
CHECK_DEADLOCK FALSE
INVARIANT
  ActiveIsScheduled
