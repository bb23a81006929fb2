SPECIFICATION Spec
CONSTANTS
  NULL = NULL
  alice = alice
  bob = bob
  taskA = taskA
  taskB = taskB
  User <- Users
  Task <- Tasks
  Owner <- Owners
  Request = {r1, r2}
  Job = {j1}
  Conn = {c1, c2}
  Role = {"superuser", "restricted"}
  ConnectRetries = 3
CHECK_DEADLOCK FALSE
INVARIANTS
  TypeOK
  OwnRowsOnly
  AuditBelongsToOwner
  ScopeMatchesSession
  JobsSeeEveryTask
  OwnInsertsAccepted
  PoolAccounting
  ExecutorReady
  DisposedWhenUnused
PROPERTIES
  EveryoneAnswered
  ShutdownCompletes
