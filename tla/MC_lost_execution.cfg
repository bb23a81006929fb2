SPECIFICATION FairSpec
CONSTANTS
  NULL = NULL
  Task = {t1}
  Request = {r1}
  Job = {j1}
  Trigger <- FutureOnce
  CommitFirst = FALSE
  Faults <- NoFaults
  MaxNow = 3
  MaxEvents = 4
CHECK_DEADLOCK FALSE
PROPERTY
  EveryFireRecorded
