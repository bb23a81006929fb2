SPECIFICATION Spec
CONSTANTS
  NULL = NULL
  Task = {t1}
  Request = {r1}
  Job = {j1}
  Trigger <- OnceAndCron
  CommitFirst = FALSE
  Faults <- NoFaults
  MaxNow = 3
  MaxEvents = 3
CHECK_DEADLOCK FALSE
INVARIANT
  NextRunIsNextFire
