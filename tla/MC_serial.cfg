SPECIFICATION FairSpec
CONSTANTS
  NULL = NULL
  Task = {t1}
  Request = {r1}
  Job = {j1, j2}
  Trigger <- AllTriggers
  CommitFirst = FALSE
  Faults <- NoFaults
  MaxNow = 4
  MaxEvents = 5
CHECK_DEADLOCK FALSE
INVARIANTS
  TypeOK
  NoOrphanSchedule
  ActiveIsScheduled
  PreviewMatchesSchedule
  OnceAttemptedOnce
PROPERTY
  FutureOnceFires
