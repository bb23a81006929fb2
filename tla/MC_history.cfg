SPECIFICATION Spec
CONSTANTS
  NULL = NULL
  t1 = t1
  t2 = t2
  Task <- Tasks
  Trigger <- TaskTriggers
  Recorded <- Events
  Txn = {x1, x2}
  MaxClock = 3
  MaxRows = 3
  MaxInteger = 5
  Query <- Queries
SYMMETRY Sessions
CHECK_DEADLOCK FALSE
INVARIANTS
  TypeOK
  RefusedOnlyOutOfRange
  ReadBackAsWritten
  RealTimeOrder
  NoEntrySkipped
