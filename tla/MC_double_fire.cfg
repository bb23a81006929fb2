SPECIFICATION Spec
CONSTANTS
  NULL = NULL
  Task = {t1}
  Request = {r1, r2}
  Job = {j1, j2}
  Trigger <- FutureOnce
  CommitFirst = FALSE
  Faults <- NoFaults
  MaxNow = 3
  MaxEvents = 5
CHECK_DEADLOCK FALSE
INVARIANT
  OnceAttemptedOnce
