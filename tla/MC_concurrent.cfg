SPECIFICATION Spec
CONSTANTS
  NULL = NULL
  Task = {t1}
  Request = {r1, r2}
  Job = {j1, j2}
  Trigger <- AllTriggers
  CommitFirst = FALSE
  Faults <- AllFaults
  MaxNow = 2
  MaxEvents = 4
CHECK_DEADLOCK FALSE
SYMMETRY SlotSymmetry
INVARIANTS
  AuditReplay
  CreatedFirstAndOnce
  DeletedForGood
  NextRunMatchesStatus
PROPERTY
  ImplementsAudit
