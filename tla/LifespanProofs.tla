--------------------------- MODULE LifespanProofs ---------------------------
(***************************************************************************)
(* Machine-checked proofs about Lifespan and the sessions of DbSession: for *)
(* every number of users, tasks, requests, jobs and connections, for both   *)
(* roles and every number of connection attempts.                           *)
(***************************************************************************)
EXTENDS Lifespan, FiniteSetTheorems, TLAPS

(* The steps of a process that holds the connection of its session. *)
InSession == {"select", "second", "using", "end"}

(* A connection in the pool carries nothing of its last session, and one    *)
(* that is out has a process that took it for one of its two sessions.      *)
ConnectionInv ==
  \A c \in Conn :
    /\ conn[c].holder = NULL => conn[c] = Free
    /\ conn[c].holder # NULL => conn[c].part \in {"main", "second"}

(* What a process is at which step: the executor's sessions have no user,   *)
(* the health check runs no handler and names no task, only a request that  *)
(* changes or runs a task comes to the scheduler, and a task that is still  *)
(* named after the query is one that the query returned.                    *)
ProcessInv(p) ==
  /\ proc[p].pc = "idle" => proc[p] = Idle
  /\ proc[p].user = NULL => proc[p].pc \in {"idle", "connect", "end"} \/ p \in Job
  /\ p \in Request => proc[p].kind # "job"
  /\ p \in Job =>
       /\ proc[p].user = NULL /\ proc[p].pc # "second"
       /\ proc[p].pc # "idle" => proc[p].kind = "job"
  /\ proc[p].kind = "health" => proc[p].task = NULL /\ proc[p].pc \in {"connect", "end"}
  /\ proc[p].user = NULL /\ p \in Request /\ proc[p].pc # "idle" => proc[p].kind = "health"
  /\ proc[p].pc \in {"second", "using", "end"} /\ proc[p].task # NULL => proc[p].task \in proc[p].seen

(* Which connections a process holds at which step: PoolAccounting without  *)
(* the cardinalities.                                                       *)
HoldingInv(p) ==
  /\ proc[p].pc \in InSession => \E c \in Conn : Holds(p, "main") = {c}
  /\ proc[p].pc \notin InSession => Holds(p, "main") = {}
  /\ proc[p].pc = "using" /\ p \in Request => \E c \in Conn : Holds(p, "second") = {c}
  /\ ~(proc[p].pc = "using" /\ p \in Request) => Holds(p, "second") = {}

SessionInv ==
  /\ SessionTypeOK
  /\ ConnectionInv
  /\ \A p \in Proc : ProcessInv(p)
  /\ \A p \in Proc : HoldingInv(p)
  /\ ScopeMatchesSession
  /\ OwnRowsOnly
  /\ JobsSeeEveryTask

(* What the phase of the lifespan says of the executor, of the HTTP client  *)
(* and of the processes there can be.                                       *)
PhaseInv ==
  /\ phase \in Phase
  /\ attempts \in 0 .. ConnectRetries
  /\ phase = "create_db" => attempts < ConnectRetries
  /\ executor \in BOOLEAN
  /\ client \in {"none", "open", "closed"}
  /\ phase \in {"configured", "up", "draining"} => executor /\ client = "open"
  /\ phase = "closing" => executor
  /\ phase \notin {"up", "draining"} => \A r \in Request : proc[r].pc = "idle"
  /\ phase \notin {"up", "draining", "closing"} => \A j \in Job : proc[j].pc = "idle"

Inv == SessionInv /\ PhaseInv

-----------------------------------------------------------------------------
(* Taking a free connection adds it to one session of one process and       *)
(* leaves what all others hold.                                             *)
LEMMA TakeEffect ==
  ASSUME SessionTypeOK, NEW p \in Proc, NEW c \in FreeConn, NEW part \in {"main", "second"},
         NEW k, k.holder = p, k.part = part, conn' = [conn EXCEPT ![c] = k]
  PROVE  /\ Holds(p, part)' = Holds(p, part) \cup {c}
         /\ \A q \in Proc, other \in {"main", "second"} :
              q # p \/ other # part => Holds(q, other)' = Holds(q, other)
<1>1. c \in Conn /\ conn[c].holder = NULL
  BY DEF FreeConn
<1>2. \A d \in Conn : conn'[d] = IF d = c THEN k ELSE conn[d]
  BY <1>1 DEF SessionTypeOK
<1>3. Holds(p, part)' = Holds(p, part) \cup {c}
  BY <1>1, <1>2 DEF Holds
<1>4. ASSUME NEW q \in Proc, NEW other \in {"main", "second"}, q # p \/ other # part
      PROVE  Holds(q, other)' = Holds(q, other)
  <2>1. q # NULL
    BY NullIsNothing DEF Proc
  <2>2. QED
    BY <1>1, <1>2, <1>4, <2>1 DEF Holds
<1>5. QED
  BY <1>3, <1>4

(* The end of a process gives back all it holds and nothing else. *)
LEMMA ReleaseEffect ==
  ASSUME NEW p \in Proc, conn' = Released(p)
  PROVE  \A q \in Proc, part \in {"main", "second"} :
           Holds(q, part)' = IF q = p THEN {} ELSE Holds(q, part)
<1>1. \A d \in Conn : conn'[d] = IF conn[d].holder = p THEN Free ELSE conn[d]
  BY DEF Released
<1>2. Free.part = "none" /\ Free.holder = NULL
  BY DEF Free
<1>3. \A q \in Proc : q # NULL
  BY NullIsNothing DEF Proc
<1>4. QED
  BY <1>1, <1>2, <1>3 DEF Holds

(* The connection of the session of a process that has one. *)
LEMMA MainHeld ==
  ASSUME NEW p \in Proc, HoldingInv(p), proc[p].pc \in InSession
  PROVE  Main(p) \in Conn /\ conn[Main(p)].holder = p /\ conn[Main(p)].part = "main"
<1>1. Holds(p, "main") # {}
  BY DEF HoldingInv
<1>2. Main(p) \in Holds(p, "main")
  BY <1>1 DEF Main
<1>3. QED
  BY <1>2 DEF Holds

-----------------------------------------------------------------------------
(* The sessions start in order: nobody runs and every connection is free.   *)
LEMMA SessionInitInv ==
  ASSUME SessionInit
  PROVE  SessionInv
<1>1. \A p \in Proc : proc[p] = Idle
  BY DEF SessionInit
<1>2. \A c \in Conn : conn[c] = Free
  BY DEF SessionInit
<1>3. \A p \in Proc : p # NULL
  BY NullIsNothing DEF Proc
<1>4. SessionTypeOK
  BY DEF SessionInit, SessionTypeOK, Connection, Process, Kind, Free, Idle
<1>5. ConnectionInv
  <2>1. Free.holder = NULL
    BY DEF Free
  <2>2. QED
    BY <1>2, <2>1 DEF ConnectionInv
<1>6. ASSUME NEW p \in Proc PROVE ProcessInv(p)
  BY <1>1 DEF ProcessInv, Idle
<1>7. ASSUME NEW p \in Proc PROVE HoldingInv(p)
  <2>1. proc[p].pc = "idle"
    BY <1>1 DEF Idle
  <2>2. Holds(p, "main") = {} /\ Holds(p, "second") = {}
    BY <1>2, <1>3 DEF Holds, Free
  <2>3. QED
    BY <2>1, <2>2 DEF HoldingInv, InSession
<1>8. ScopeMatchesSession
  BY <1>2 DEF ScopeMatchesSession, Free
<1>9. OwnRowsOnly /\ JobsSeeEveryTask
  BY <1>1 DEF OwnRowsOnly, JobsSeeEveryTask, Idle, Proc
<1>10. QED
  BY <1>4, <1>5, <1>6, <1>7, <1>8, <1>9 DEF SessionInv

(* A request or a job that starts holds nothing yet. *)
LEMMA StartKeepsSessions ==
  ASSUME SessionInv, NEW p \in Proc, proc[p].pc = "idle",
         NEW x \in Process, x.pc = "connect", x.seen = {},
         p \in Request => x.kind # "job" /\ (x.kind = "health" <=> x.user = NULL),
         p \in Job => x.kind = "job" /\ x.user = NULL,
         x.kind = "health" => x.task = NULL,
         proc' = [proc EXCEPT ![p] = x],
         UNCHANGED <<role, conn>>
  PROVE  SessionInv'
<1>1. \A q \in Proc : proc'[q] = IF q = p THEN x ELSE proc[q]
  BY DEF SessionInv, SessionTypeOK
<1>2. Holds(p, "main") = {} /\ Holds(p, "second") = {}
  BY DEF SessionInv, HoldingInv, InSession
<1>3. \A q \in Proc, part \in {"main", "second"} : Holds(q, part)' = Holds(q, part)
  BY DEF Holds
<1>4. SessionTypeOK'
  BY DEF SessionInv, SessionTypeOK
<1>5. ConnectionInv'
  BY DEF SessionInv, ConnectionInv
<1>6. ASSUME NEW q \in Proc PROVE ProcessInv(q)'
  BY <1>1, ProcAssumption DEF SessionInv, ProcessInv, Proc
<1>7. ASSUME NEW q \in Proc PROVE HoldingInv(q)'
  BY <1>1, <1>2, <1>3 DEF SessionInv, HoldingInv, InSession
<1>8. ScopeMatchesSession'
  <2>1. ASSUME NEW c \in Conn, conn[c].part = "main"
        PROVE  conn[c].holder \in Proc /\ conn[c].holder # p
    BY <1>2, <2>1 DEF SessionInv, SessionTypeOK, ConnectionInv, Connection, Holds, Free
  <2>2. QED
    BY <1>1, <2>1 DEF SessionInv, ScopeMatchesSession
<1>9. OwnRowsOnly' /\ JobsSeeEveryTask'
  BY <1>1 DEF SessionInv, OwnRowsOnly, JobsSeeEveryTask, Proc
<1>10. QED
  BY <1>4, <1>5, <1>6, <1>7, <1>8, <1>9 DEF SessionInv

(* A session opens: its settings are those of its process. *)
LEMMA CheckoutKeepsSessions ==
  ASSUME SessionInv, NEW p \in Proc, Checkout(p)
  PROVE  SessionInv'
<1>1. PICK c \in FreeConn :
        conn' = [conn EXCEPT ![c] =
          [holder |-> p, part |-> "main", current_user_id |-> proc[p].user,
           is_scheduler |-> proc[p].kind = "job"]]
  BY DEF Checkout
<1> DEFINE taken == [holder |-> p, part |-> "main", current_user_id |-> proc[p].user,
                     is_scheduler |-> proc[p].kind = "job"]
           next == IF proc[p].kind = "health" THEN "end" ELSE "select"
<1>2. c \in Conn /\ conn[c].holder = NULL /\ conn[c].part = "none"
  BY DEF FreeConn, SessionInv, ConnectionInv, Free
<1>3. \A d \in Conn : conn'[d] = IF d = c THEN taken ELSE conn[d]
  BY <1>1, <1>2 DEF SessionInv, SessionTypeOK
<1>4. /\ proc[p].pc = "connect" /\ role' = role
      /\ proc' = [proc EXCEPT ![p].pc = next]
  BY DEF Checkout
<1>5. /\ \A q \in Proc : q # p => proc'[q] = proc[q]
      /\ proc'[p].pc = next /\ proc'[p].kind = proc[p].kind /\ proc'[p].user = proc[p].user
      /\ proc'[p].task = proc[p].task /\ proc'[p].seen = proc[p].seen
  BY <1>4 DEF SessionInv, SessionTypeOK, Process
<1>6. /\ Holds(p, "main")' = Holds(p, "main") \cup {c}
      /\ \A q \in Proc, other \in {"main", "second"} :
           q # p \/ other # "main" => Holds(q, other)' = Holds(q, other)
  <2>1. taken.holder = p /\ taken.part = "main"
    OBVIOUS
  <2>2. QED
    BY <1>1, <2>1, TakeEffect DEF SessionInv
<1>7. SessionTypeOK'
  <2>1. taken \in Connection
    BY DEF SessionInv, SessionTypeOK, Connection, Process
  <2>2. QED
    BY <1>1, <1>4, <2>1 DEF SessionInv, SessionTypeOK, Process
<1>8. ConnectionInv'
  BY <1>3, NullIsNothing DEF SessionInv, ConnectionInv, Proc
<1>9. ASSUME NEW q \in Proc PROVE ProcessInv(q)'
  <2>1. CASE q = p
    <3>1. ProcessInv(p)
      BY DEF SessionInv
    <3>2. next \in {"select", "end"} /\ (next = "end" <=> proc[p].kind = "health")
      OBVIOUS
    <3>3. QED
      BY <1>4, <1>5, <2>1, <3>1, <3>2, ProcAssumption DEF ProcessInv, Proc
  <2>2. CASE q # p
    BY <1>5, <2>2 DEF SessionInv, ProcessInv
  <2>3. QED
    BY <2>1, <2>2
<1>10. ASSUME NEW q \in Proc PROVE HoldingInv(q)'
  <2>1. CASE q = p
    <3>1. Holds(p, "main") = {} /\ Holds(p, "second") = {}
      BY <1>4 DEF SessionInv, HoldingInv, InSession
    <3>2. Holds(p, "main")' = {c} /\ Holds(p, "second")' = {}
      BY <1>6, <3>1
    <3>3. QED
      BY <1>2, <1>5, <2>1, <3>2 DEF HoldingInv, InSession
  <2>2. CASE q # p
    BY <1>5, <1>6, <2>2 DEF SessionInv, HoldingInv
  <2>3. QED
    BY <2>1, <2>2
<1>11. ScopeMatchesSession'
  <2>1. ASSUME NEW d \in Conn, conn[d].part = "main"
        PROVE  conn[d].holder \in Proc
    BY <2>1 DEF SessionInv, SessionTypeOK, ConnectionInv, Connection, Free
  <2>2. \A q \in Proc : proc'[q].user = proc[q].user
    BY <1>5
  <2>3. proc[p].kind = "job" <=> p \in Job
    BY <1>4, ProcAssumption DEF SessionInv, ProcessInv, Proc
  <2>4. ASSUME NEW d \in Conn
        PROVE  /\ conn'[d].holder = NULL => conn'[d].current_user_id = NULL /\ ~conn'[d].is_scheduler
               /\ conn'[d].part = "main" =>
                    /\ conn'[d].current_user_id = proc'[conn'[d].holder].user
                    /\ conn'[d].is_scheduler <=> conn'[d].holder \in Job
    <3>1. CASE d = c
      <4>1. /\ conn'[d].holder = p /\ conn'[d].current_user_id = proc[p].user
            /\ conn'[d].is_scheduler = (proc[p].kind = "job")
        BY <1>3, <3>1
      <4>2. QED
        BY <2>2, <2>3, <4>1, NullIsNothing, Zenon DEF Proc
    <3>2. CASE d # c
      BY <1>3, <2>1, <2>2, <3>2 DEF SessionInv, ScopeMatchesSession
    <3>3. QED
      BY <3>1, <3>2
  <2>5. QED
    BY <2>4 DEF ScopeMatchesSession
<1>12. OwnRowsOnly'
  BY <1>5 DEF SessionInv, OwnRowsOnly, Proc
<1>13. JobsSeeEveryTask'
  <2>1. p \in Job => next = "select"
    BY <1>4, ProcAssumption DEF SessionInv, ProcessInv, Proc
  <2>2. QED
    BY <1>5, <2>1 DEF SessionInv, JobsSeeEveryTask, Proc
<1>14. QED
  BY <1>7, <1>8, <1>9, <1>10, <1>11, <1>12, <1>13 DEF SessionInv

(* A process that ends, however it does, leaves nothing behind. *)
LEMMA EndKeepsSessions ==
  ASSUME SessionInv, NEW p \in Proc, conn' = Released(p), proc' = [proc EXCEPT ![p] = Idle],
         UNCHANGED role
  PROVE  SessionInv'
<1>1. \A d \in Conn : conn'[d] = IF conn[d].holder = p THEN Free ELSE conn[d]
  BY DEF Released
<1>2. \A q \in Proc : proc'[q] = IF q = p THEN Idle ELSE proc[q]
  BY DEF SessionInv, SessionTypeOK
<1>3. /\ Idle.pc = "idle" /\ Idle.user = NULL /\ Idle.kind = "none"
      /\ Idle.task = NULL /\ Idle.seen = {} /\ Idle \in Process
  BY DEF Idle, Process, Kind
<1>4. /\ Free.holder = NULL /\ Free.part = "none" /\ Free.current_user_id = NULL
      /\ ~Free.is_scheduler /\ Free \in Connection
  BY DEF Free, Connection
<1>5. \A q \in Proc, part \in {"main", "second"} :
        Holds(q, part)' = IF q = p THEN {} ELSE Holds(q, part)
  BY ReleaseEffect
<1>6. SessionTypeOK'
  <2>1. conn' \in [Conn -> Connection]
    BY <1>4 DEF SessionInv, SessionTypeOK, Released
  <2>2. QED
    BY <1>3, <2>1 DEF SessionInv, SessionTypeOK
<1>7. ConnectionInv'
  BY <1>1, <1>4 DEF SessionInv, ConnectionInv
<1>8. ASSUME NEW q \in Proc PROVE ProcessInv(q)'
  BY <1>2, <1>3 DEF SessionInv, ProcessInv
<1>9. ASSUME NEW q \in Proc PROVE HoldingInv(q)'
  BY <1>2, <1>3, <1>5 DEF SessionInv, HoldingInv, InSession
<1>10. ScopeMatchesSession'
  <2>1. ASSUME NEW d \in Conn, conn[d].part = "main"
        PROVE  conn[d].holder \in Proc
    BY <2>1 DEF SessionInv, SessionTypeOK, ConnectionInv, Connection, Free
  <2>2. QED
    BY <1>1, <1>2, <1>4, <2>1 DEF SessionInv, ScopeMatchesSession
<1>11. OwnRowsOnly' /\ JobsSeeEveryTask'
  BY <1>2, <1>3 DEF SessionInv, OwnRowsOnly, JobsSeeEveryTask, Proc
<1>12. QED
  BY <1>6, <1>7, <1>8, <1>9, <1>10, <1>11 DEF SessionInv

(* The query of a handler sees its user's rows, that of a job every row: the *)
(* loader criteria bind a session with a user whatever the role, and the    *)
(* scheduler's setting opens the policies to one without.                   *)
LEMMA VisibleRows ==
  ASSUME SessionInv, NEW p \in Proc, proc[p].pc = "select"
  PROVE  /\ Visible(p) \subseteq Task
         /\ p \in Request => \A t \in Visible(p) : Owner[t] = proc[p].user
         /\ p \in Job => Visible(p) = Task
<1>1. Visible(p) \subseteq Task
  BY DEF Visible
<1>2. ASSUME p \in Request, NEW t \in Visible(p)
      PROVE  Owner[t] = proc[p].user
  <2>1. proc[p].user # NULL
    BY <1>2, ProcAssumption DEF SessionInv, ProcessInv
  <2>2. QED
    BY <2>1 DEF Visible, _apply_user_scope
<1>3. ASSUME p \in Job
      PROVE  Visible(p) = Task
  <2>1. proc[p].user = NULL
    BY <1>3 DEF SessionInv, ProcessInv
  <2>2. Main(p) \in Conn /\ conn[Main(p)].holder = p /\ conn[Main(p)].part = "main"
    BY MainHeld DEF SessionInv, InSession
  <2>3. conn[Main(p)].is_scheduler
    BY <1>3, <2>2, Zenon DEF SessionInv, ScopeMatchesSession
  <2>4. QED
    BY <2>1, <2>3, Zenon DEF Visible, _apply_user_scope, TaskPolicy
<1>4. QED
  BY <1>1, <1>2, <1>3

(* The query keeps the task only when it returned it. *)
LEMMA SelectKeepsSessions ==
  ASSUME SessionInv, NEW p \in Proc, Select(p)
  PROVE  SessionInv'
<1> DEFINE found == proc[p].task \in Visible(p)
<1>1. PICK next \in {"second", "using", "end"} :
        /\ next = "second" => found /\ proc[p].kind \in {"change", "run"}
        /\ next = "using" => found /\ proc[p].kind = "job"
        /\ next = "end" => ~found \/ proc[p].kind \in {"read", "change"}
        /\ proc' = [proc EXCEPT ![p].pc = next, ![p].seen = Visible(p),
                                ![p].task = IF found THEN @ ELSE NULL]
  BY DEF Select
<1>2. proc[p].pc = "select" /\ role' = role /\ conn' = conn
  BY DEF Select
<1>3. /\ \A q \in Proc : q # p => proc'[q] = proc[q]
      /\ proc'[p].pc = next /\ proc'[p].kind = proc[p].kind /\ proc'[p].user = proc[p].user
      /\ proc'[p].task = (IF found THEN proc[p].task ELSE NULL) /\ proc'[p].seen = Visible(p)
  BY <1>1 DEF SessionInv, SessionTypeOK, Process
<1>4. /\ Visible(p) \subseteq Task
      /\ p \in Request => \A t \in Visible(p) : Owner[t] = proc[p].user
      /\ p \in Job => Visible(p) = Task
  BY <1>2, VisibleRows
<1>5. \A q \in Proc, part \in {"main", "second"} : Holds(q, part)' = Holds(q, part)
  BY <1>2 DEF Holds
<1>6. ProcessInv(p) /\ HoldingInv(p)
  BY DEF SessionInv
<1>7. SessionTypeOK'
  <2>1. Visible(p) \in SUBSET Task /\ (IF found THEN proc[p].task ELSE NULL) \in Task \cup {NULL}
    BY <1>4 DEF SessionInv, SessionTypeOK, Process
  <2>2. proc'[p] \in Process
    BY <1>1, <2>1 DEF SessionInv, SessionTypeOK, Process
  <2>3. proc' = [q \in Proc |-> proc'[q]]
    BY <1>1 DEF SessionInv, SessionTypeOK
  <2>4. proc' \in [Proc -> Process]
    BY <1>3, <2>2, <2>3 DEF SessionInv, SessionTypeOK
  <2>5. QED
    BY <1>2, <2>4 DEF SessionInv, SessionTypeOK
<1>8. ConnectionInv'
  BY <1>2 DEF SessionInv, ConnectionInv
<1>9. ASSUME NEW q \in Proc PROVE ProcessInv(q)'
  <2>1. CASE q = p
    BY <1>1, <1>2, <1>3, <1>6, <2>1, ProcAssumption DEF ProcessInv
  <2>2. CASE q # p
    BY <1>3, <2>2 DEF SessionInv, ProcessInv
  <2>3. QED
    BY <2>1, <2>2
<1>10. ASSUME NEW q \in Proc PROVE HoldingInv(q)'
  <2>1. CASE q = p
    <3>1. ~(next = "using" /\ p \in Request)
      BY <1>1, <1>6 DEF ProcessInv
    <3>2. QED
      BY <1>1, <1>2, <1>3, <1>5, <1>6, <2>1, <3>1 DEF HoldingInv, InSession
  <2>2. CASE q # p
    BY <1>3, <1>5, <2>2 DEF SessionInv, HoldingInv
  <2>3. QED
    BY <2>1, <2>2
<1>11. ScopeMatchesSession'
  <2>1. ASSUME NEW d \in Conn, conn[d].part = "main"
        PROVE  conn[d].holder \in Proc
    BY <2>1 DEF SessionInv, SessionTypeOK, ConnectionInv, Connection, Free
  <2>2. \A q \in Proc : proc'[q].user = proc[q].user
    BY <1>3
  <2>3. QED
    BY <1>2, <2>1, <2>2 DEF SessionInv, ScopeMatchesSession
<1>12. OwnRowsOnly' /\ JobsSeeEveryTask'
  BY <1>3, <1>4 DEF SessionInv, OwnRowsOnly, JobsSeeEveryTask, Proc
<1>13. QED
  BY <1>7, <1>8, <1>9, <1>10, <1>11, <1>12 DEF SessionInv

(* The second connection of a request: the first stays as it is. *)
LEMMA SecondKeepsSessions ==
  ASSUME SessionInv, NEW p \in Proc, CheckoutSecond(p)
  PROVE  SessionInv'
<1>1. PICK c \in FreeConn :
        conn' = [conn EXCEPT ![c] =
          [holder |-> p, part |-> "second", current_user_id |-> NULL,
           is_scheduler |-> proc[p].kind = "run"]]
  BY DEF CheckoutSecond
<1> DEFINE taken == [holder |-> p, part |-> "second", current_user_id |-> NULL,
                     is_scheduler |-> proc[p].kind = "run"]
<1>2. c \in Conn /\ conn[c].holder = NULL
  BY DEF FreeConn
<1>3. \A d \in Conn : conn'[d] = IF d = c THEN taken ELSE conn[d]
  BY <1>1, <1>2 DEF SessionInv, SessionTypeOK
<1>4. /\ proc[p].pc = "second" /\ role' = role
      /\ proc' = [proc EXCEPT ![p].pc = "using"]
  BY DEF CheckoutSecond
<1>5. /\ \A q \in Proc : q # p => proc'[q] = proc[q]
      /\ proc'[p].pc = "using" /\ proc'[p].kind = proc[p].kind /\ proc'[p].user = proc[p].user
      /\ proc'[p].task = proc[p].task /\ proc'[p].seen = proc[p].seen
  BY <1>4 DEF SessionInv, SessionTypeOK, Process
<1>6. /\ Holds(p, "second")' = Holds(p, "second") \cup {c}
      /\ \A q \in Proc, other \in {"main", "second"} :
           q # p \/ other # "second" => Holds(q, other)' = Holds(q, other)
  <2>1. taken.holder = p /\ taken.part = "second"
    OBVIOUS
  <2>2. QED
    BY <1>1, <2>1, TakeEffect DEF SessionInv
<1>7. ProcessInv(p) /\ HoldingInv(p)
  BY DEF SessionInv
<1>8. p \in Request
  BY <1>4, <1>7 DEF ProcessInv, Proc
<1>9. SessionTypeOK'
  <2>1. taken \in Connection
    BY DEF Connection
  <2>2. QED
    BY <1>1, <1>4, <2>1 DEF SessionInv, SessionTypeOK, Process
<1>10. ConnectionInv'
  BY <1>3, NullIsNothing DEF SessionInv, ConnectionInv, Proc
<1>11. ASSUME NEW q \in Proc PROVE ProcessInv(q)'
  <2>1. CASE q = p
    BY <1>4, <1>5, <1>7, <2>1 DEF ProcessInv
  <2>2. CASE q # p
    BY <1>5, <2>2 DEF SessionInv, ProcessInv
  <2>3. QED
    BY <2>1, <2>2
<1>12. ASSUME NEW q \in Proc PROVE HoldingInv(q)'
  <2>1. CASE q = p
    <3>1. Holds(p, "second")' = {c}
      BY <1>4, <1>6, <1>7 DEF HoldingInv
    <3>2. Holds(p, "main")' = Holds(p, "main")
      BY <1>6
    <3>3. QED
      BY <1>2, <1>4, <1>5, <1>7, <1>8, <2>1, <3>1, <3>2 DEF HoldingInv, InSession
  <2>2. CASE q # p
    BY <1>5, <1>6, <2>2 DEF SessionInv, HoldingInv
  <2>3. QED
    BY <2>1, <2>2
<1>13. ScopeMatchesSession'
  <2>1. ASSUME NEW d \in Conn, conn[d].part = "main"
        PROVE  conn[d].holder \in Proc
    BY <2>1 DEF SessionInv, SessionTypeOK, ConnectionInv, Connection, Free
  <2>2. \A q \in Proc : proc'[q].user = proc[q].user
    BY <1>5
  <2>3. QED
    BY <1>3, <2>1, <2>2, NullIsNothing DEF SessionInv, ScopeMatchesSession, Proc
<1>14. OwnRowsOnly' /\ JobsSeeEveryTask'
  BY <1>5, <1>8, ProcAssumption DEF SessionInv, OwnRowsOnly, JobsSeeEveryTask, Proc
<1>15. QED
  BY <1>9, <1>10, <1>11, <1>12, <1>13, <1>14 DEF SessionInv

(* The second session closes, the first stays open with its settings. *)
LEMMA UsedKeepsSessions ==
  ASSUME SessionInv, NEW p \in Proc, Used(p)
  PROVE  SessionInv'
<1>1. /\ proc[p].pc = "using" /\ role' = role
      /\ conn' = [c \in Conn |-> IF c \in Holds(p, "second") THEN Free ELSE conn[c]]
      /\ proc' = [proc EXCEPT ![p].pc = "end"]
  BY DEF Used
<1>2. \A d \in Conn : conn'[d] = IF conn[d].holder = p /\ conn[d].part = "second" THEN Free ELSE conn[d]
  BY <1>1 DEF Holds
<1>3. /\ \A q \in Proc : q # p => proc'[q] = proc[q]
      /\ proc'[p].pc = "end" /\ proc'[p].kind = proc[p].kind /\ proc'[p].user = proc[p].user
      /\ proc'[p].task = proc[p].task /\ proc'[p].seen = proc[p].seen
  BY <1>1 DEF SessionInv, SessionTypeOK, Process
<1>4. /\ Free.holder = NULL /\ Free.part = "none" /\ Free.current_user_id = NULL
      /\ ~Free.is_scheduler /\ Free \in Connection
  BY DEF Free, Connection
<1>5. \A q \in Proc : q # NULL
  BY NullIsNothing DEF Proc
<1>6. \A q \in Proc : Holds(q, "main")' = Holds(q, "main")
  BY <1>2, <1>4, <1>5 DEF Holds
<1>7. \A q \in Proc : Holds(q, "second")' = IF q = p THEN {} ELSE Holds(q, "second")
  BY <1>2, <1>4, <1>5 DEF Holds
<1>8. ProcessInv(p) /\ HoldingInv(p)
  BY DEF SessionInv
<1>9. SessionTypeOK'
  <2>1. conn' \in [Conn -> Connection]
    BY <1>1, <1>4 DEF SessionInv, SessionTypeOK
  <2>2. QED
    BY <1>1, <2>1 DEF SessionInv, SessionTypeOK, Process
<1>10. ConnectionInv'
  BY <1>2, <1>4 DEF SessionInv, ConnectionInv
<1>11. ASSUME NEW q \in Proc PROVE ProcessInv(q)'
  <2>1. CASE q = p
    BY <1>1, <1>3, <1>8, <2>1 DEF ProcessInv
  <2>2. CASE q # p
    BY <1>3, <2>2 DEF SessionInv, ProcessInv
  <2>3. QED
    BY <2>1, <2>2
<1>12. ASSUME NEW q \in Proc PROVE HoldingInv(q)'
  <2>1. CASE q = p
    BY <1>1, <1>3, <1>6, <1>7, <1>8, <2>1 DEF HoldingInv, InSession
  <2>2. CASE q # p
    BY <1>3, <1>6, <1>7, <2>2 DEF SessionInv, HoldingInv
  <2>3. QED
    BY <2>1, <2>2
<1>13. ScopeMatchesSession'
  <2>1. ASSUME NEW d \in Conn, conn[d].part = "main"
        PROVE  conn[d].holder \in Proc
    BY <2>1 DEF SessionInv, SessionTypeOK, ConnectionInv, Connection, Free
  <2>2. \A q \in Proc : proc'[q].user = proc[q].user
    BY <1>3
  <2>3. QED
    BY <1>2, <1>4, <2>1, <2>2 DEF SessionInv, ScopeMatchesSession
<1>14. OwnRowsOnly' /\ JobsSeeEveryTask'
  BY <1>1, <1>3 DEF SessionInv, OwnRowsOnly, JobsSeeEveryTask, Proc
<1>15. QED
  BY <1>9, <1>10, <1>11, <1>12, <1>13, <1>14 DEF SessionInv

(* The jobs that are cancelled with the scheduler leave nothing behind.     *)
LEMMA StopKeepsSessions ==
  ASSUME SessionInv, StopScheduler
  PROVE  SessionInv'
<1>1. /\ role' = role
      /\ conn' = [c \in Conn |-> IF conn[c].holder \in Job THEN Free ELSE conn[c]]
      /\ proc' = [p \in Proc |-> IF p \in Job THEN Idle ELSE proc[p]]
  BY DEF StopScheduler
<1>2. \A d \in Conn : conn'[d] = IF conn[d].holder \in Job THEN Free ELSE conn[d]
  BY <1>1
<1>3. \A q \in Proc : proc'[q] = IF q \in Job THEN Idle ELSE proc[q]
  BY <1>1
<1>4. /\ Idle.pc = "idle" /\ Idle.user = NULL /\ Idle.kind = "none"
      /\ Idle.task = NULL /\ Idle.seen = {} /\ Idle \in Process
  BY DEF Idle, Process, Kind
<1>5. /\ Free.holder = NULL /\ Free.part = "none" /\ Free.current_user_id = NULL
      /\ ~Free.is_scheduler /\ Free \in Connection
  BY DEF Free, Connection
<1>6. \A q \in Proc : q # NULL
  BY NullIsNothing DEF Proc
<1>7. \A q \in Proc, part \in {"main", "second"} :
        Holds(q, part)' = IF q \in Job THEN {} ELSE Holds(q, part)
  BY <1>2, <1>5, <1>6 DEF Holds
<1>8. SessionTypeOK'
  BY <1>1, <1>4, <1>5 DEF SessionInv, SessionTypeOK
<1>9. ConnectionInv'
  BY <1>2, <1>5 DEF SessionInv, ConnectionInv
<1>10. ASSUME NEW q \in Proc PROVE ProcessInv(q)'
  BY <1>3, <1>4 DEF SessionInv, ProcessInv
<1>11. ASSUME NEW q \in Proc PROVE HoldingInv(q)'
  BY <1>3, <1>4, <1>7 DEF SessionInv, HoldingInv, InSession
<1>12. ScopeMatchesSession'
  <2>1. ASSUME NEW d \in Conn, conn[d].part = "main"
        PROVE  conn[d].holder \in Proc
    BY <2>1 DEF SessionInv, SessionTypeOK, ConnectionInv, Connection, Free
  <2>2. QED
    BY <1>2, <1>3, <1>5, <2>1 DEF SessionInv, ScopeMatchesSession
<1>13. OwnRowsOnly' /\ JobsSeeEveryTask'
  BY <1>3, <1>4, ProcAssumption DEF SessionInv, OwnRowsOnly, JobsSeeEveryTask, Proc
<1>14. QED
  BY <1>8, <1>9, <1>10, <1>11, <1>12, <1>13 DEF SessionInv

-----------------------------------------------------------------------------
(* Every step of a process keeps the sessions in order ... *)
LEMMA StepKeepsSessions ==
  ASSUME SessionInv, NEW p \in Proc, Step(p)
  PROVE  SessionInv'
<1>1. CASE Checkout(p)
  BY <1>1, CheckoutKeepsSessions
<1>2. CASE PoolTimeout(p) \/ ConnectFails(p) \/ StepFails(p) \/ CloseSession(p)
  BY <1>2, EndKeepsSessions DEF PoolTimeout, ConnectFails, StepFails, CloseSession
<1>3. CASE Select(p)
  BY <1>3, SelectKeepsSessions
<1>4. CASE CheckoutSecond(p)
  BY <1>4, SecondKeepsSessions
<1>5. CASE Used(p)
  BY <1>5, UsedKeepsSessions
<1>6. QED
  BY <1>1, <1>2, <1>3, <1>4, <1>5 DEF Step

(* ... and is a step of a process that runs, which leaves the others alone. *)
LEMMA StepIsLocal ==
  ASSUME SessionTypeOK, NEW p \in Proc, Step(p)
  PROVE  proc[p].pc # "idle" /\ \A q \in Proc : q # p => proc'[q] = proc[q]
<1>1. CASE Checkout(p)
  BY <1>1 DEF Checkout, SessionTypeOK
<1>2. CASE PoolTimeout(p) \/ ConnectFails(p) \/ StepFails(p) \/ CloseSession(p)
  BY <1>2 DEF PoolTimeout, ConnectFails, StepFails, CloseSession, SessionTypeOK
<1>3. CASE Select(p)
  BY <1>3 DEF Select, SessionTypeOK
<1>4. CASE CheckoutSecond(p) \/ Used(p)
  BY <1>4 DEF CheckoutSecond, Used, SessionTypeOK
<1>5. QED
  BY <1>1, <1>2, <1>3, <1>4 DEF Step

(* A request that is accepted starts with nothing. *)
LEMMA AcceptKeepsInv ==
  ASSUME Inv, Accept
  PROVE  Inv'
<1>1. PICK r \in Request, kind \in {"health", "read", "change", "run"},
           u \in User \cup {NULL}, t \in Task \cup {NULL} : dispatch(r, kind, u, t)
  BY DEF Accept
<1> DEFINE x == [Idle EXCEPT !.pc = "connect", !.kind = kind, !.user = u, !.task = t]
<1>2. x \in Process /\ x.pc = "connect" /\ x.seen = {} /\ x.kind = kind /\ x.user = u /\ x.task = t
  BY DEF Idle, Process, Kind
<1>3. /\ proc[r].pc = "idle" /\ proc' = [proc EXCEPT ![r] = x] /\ UNCHANGED <<role, conn>>
      /\ (kind = "health" <=> u = NULL) /\ (kind \in {"change", "run"} <=> t # NULL)
  BY <1>1 DEF dispatch
<1>4. r \in Proc /\ r \notin Job
  BY ProcAssumption DEF Proc
<1>5. SessionInv'
  <2> HIDE DEF x
  <2>1. QED
    BY <1>2, <1>3, <1>4, StartKeepsSessions DEF Inv
<1>6. PhaseInv'
  <2>1. \A j \in Job : proc'[j] = proc[j]
    BY <1>3, <1>4, ProcAssumption DEF Inv, SessionInv, SessionTypeOK, Proc
  <2>2. QED
    BY <2>1 DEF Inv, PhaseInv, Accept, lifespanVars
<1>7. QED
  BY <1>5, <1>6 DEF Inv

(* So does a job that the scheduler hands out. *)
LEMMA AcquireKeepsInv ==
  ASSUME Inv, Acquire
  PROVE  Inv'
<1>1. PICK j \in Job, t \in Task : execute_scheduled_task(j, t)
  BY DEF Acquire
<1> DEFINE x == [Idle EXCEPT !.pc = "connect", !.kind = "job", !.task = t]
<1>2. /\ x \in Process /\ x.pc = "connect" /\ x.seen = {} /\ x.kind = "job"
      /\ x.user = NULL /\ x.task = t
  BY DEF Idle, Process, Kind
<1>3. proc[j].pc = "idle" /\ proc' = [proc EXCEPT ![j] = x] /\ UNCHANGED <<role, conn>>
  BY <1>1 DEF execute_scheduled_task
<1>4. j \in Proc /\ j \notin Request
  BY ProcAssumption DEF Proc
<1>5. SessionInv'
  <2> HIDE DEF x
  <2>1. QED
    BY <1>2, <1>3, <1>4, StartKeepsSessions DEF Inv
<1>6. PhaseInv'
  <2>1. \A r \in Request : proc'[r] = proc[r]
    BY <1>3, <1>4, ProcAssumption DEF Inv, SessionInv, SessionTypeOK, Proc
  <2>2. QED
    BY <2>1 DEF Inv, PhaseInv, Acquire, lifespanVars
<1>7. QED
  BY <1>5, <1>6 DEF Inv

(* A process only runs in a phase that has such processes. *)
LEMMA ProceedKeepsInv ==
  ASSUME Inv, NEW p \in Proc, Proceed(p)
  PROVE  Inv'
<1>1. Step(p) /\ UNCHANGED lifespanVars
  BY DEF Proceed
<1>2. SessionInv'
  BY <1>1, StepKeepsSessions DEF Inv
<1>3. proc[p].pc # "idle" /\ \A q \in Proc : q # p => proc'[q] = proc[q]
  BY <1>1, StepIsLocal DEF Inv, SessionInv
<1>4. PhaseInv'
  BY <1>1, <1>3 DEF Inv, PhaseInv, lifespanVars, Proc
<1>5. QED
  BY <1>2, <1>4 DEF Inv

(* Nothing that Inv says of the sessions changes with the sessions alone. *)
LEMMA IdleSessions ==
  ASSUME SessionInv, UNCHANGED sessionVars
  PROVE  SessionInv' /\ \A p \in Proc : proc'[p] = proc[p]
<1>1. role' = role /\ conn' = conn /\ proc' = proc
  BY DEF sessionVars
<1>2. QED
  BY <1>1 DEF SessionInv, SessionTypeOK, ConnectionInv, ProcessInv, HoldingInv, Holds,
              ScopeMatchesSession, OwnRowsOnly, JobsSeeEveryTask

(* Start-up and shutdown. *)
LEMMA LifespanKeepsInv ==
  ASSUME Inv, LifespanStep \/ Shutdown
  PROVE  Inv'
<1>1. CASE StopScheduler
  <2>1. SessionInv'
    BY <1>1, StopKeepsSessions DEF Inv
  <2>2. PhaseInv'
    <3>1. \A r \in Request : proc'[r].pc = "idle"
      BY <1>1, ProcAssumption DEF StopScheduler, Inv, PhaseInv, Proc
    <3>2. \A j \in Job : proc'[j].pc = "idle"
      BY <1>1 DEF StopScheduler, Proc, Idle
    <3>3. QED
      BY <1>1, <3>1, <3>2 DEF StopScheduler, Inv, PhaseInv, Phase
  <2>3. QED
    BY <2>1, <2>2 DEF Inv
<1>2. CASE create_db \/ configure_scheduler \/ start_in_background \/ aclose \/ dispose \/ Shutdown
  <2>1. UNCHANGED sessionVars
    BY <1>2 DEF create_db, configure_scheduler, start_in_background, aclose, dispose, Shutdown
  <2>2. SessionInv' /\ \A p \in Proc : proc'[p] = proc[p]
    BY <2>1, IdleSessions DEF Inv
  <2>3. PhaseInv'
    <3>1. CASE create_db
      BY <2>2, <3>1, RetriesAssumption DEF create_db, Inv, PhaseInv, Phase, Proc
    <3>2. CASE configure_scheduler
      BY <2>2, <3>2 DEF configure_scheduler, Inv, PhaseInv, Phase, Proc
    <3>3. CASE start_in_background \/ Shutdown \/ dispose
      BY <2>2, <3>3 DEF start_in_background, Shutdown, dispose, Inv, PhaseInv, Phase, Proc
    <3>4. CASE aclose
      BY <2>2, <3>4 DEF aclose, Inv, PhaseInv, Phase, Proc
    <3>5. QED
      BY <1>2, <3>1, <3>2, <3>3, <3>4
  <2>4. QED
    BY <2>2, <2>3 DEF Inv
<1>3. QED
  BY <1>1, <1>2 DEF LifespanStep

(* Inv is inductive. *)
LEMMA InvInductive == Spec => []Inv
<1>1. Init => Inv
  <2>1. ASSUME Init PROVE Inv
    <3>1. SessionInv
      BY <2>1, SessionInitInv DEF Init
    <3>2. \A p \in Proc : proc[p].pc = "idle"
      BY <2>1 DEF Init, SessionInit, Idle
    <3>3. PhaseInv
      <4>1. executor \in BOOLEAN
        BY <2>1, Zenon DEF Init
      <4>2. phase = "create_db" /\ attempts = 0 /\ client = "none"
        BY <2>1 DEF Init
      <4>3. QED
        BY <3>2, <4>1, <4>2, RetriesAssumption DEF PhaseInv, Phase, Proc
    <3>4. QED
      BY <3>1, <3>3 DEF Inv
  <2>2. QED
    BY <2>1
<1>2. Inv /\ [Next]_vars => Inv'
  <2>1. ASSUME Inv, Next PROVE Inv'
    BY <2>1, LifespanKeepsInv, AcceptKeepsInv, AcquireKeepsInv, ProceedKeepsInv DEF Next
  <2>2. ASSUME Inv, UNCHANGED vars PROVE Inv'
    <3>1. SessionInv' /\ \A p \in Proc : proc'[p] = proc[p]
      BY <2>2, IdleSessions DEF vars, Inv
    <3>2. PhaseInv'
      BY <2>2, <3>1 DEF vars, lifespanVars, Inv, PhaseInv, Proc
    <3>3. QED
      BY <3>1, <3>2 DEF Inv
  <2>3. QED
    BY <2>1, <2>2
<1>3. QED
  BY <1>1, <1>2, PTL DEF Spec

-----------------------------------------------------------------------------
(* What Inv says of the state, one property after the other. *)

(* At its last step a process still has the connection of its session. *)
LEMMA InsertsUnderOwnSettings ==
  ASSUME Inv, NEW r \in Request, proc[r].pc = "end"
  PROVE  conn[Main(r)].current_user_id = proc[r].user
<1>1. r \in Proc
  BY DEF Proc
<1>2. Main(r) \in Conn /\ conn[Main(r)].holder = r /\ conn[Main(r)].part = "main"
  BY <1>1, MainHeld DEF Inv, SessionInv, InSession
<1>3. QED
  BY <1>2 DEF Inv, SessionInv, ScopeMatchesSession

(* The variables keep their types, and async_creator never counts more than *)
(* settings.db.connect_retries failed attempts.                             *)
THEOREM TypeCorrect == Spec => []TypeOK
<1>1. Inv => TypeOK
  BY DEF Inv, SessionInv, PhaseInv, TypeOK
<1>2. QED
  BY <1>1, InvInductive, PTL

(* The transaction-local settings of set_user_rls and set_scheduler_rls     *)
(* never outlive their session: whatever a pooled connection was used for   *)
(* before, a statement runs under the settings of its own session.          *)
THEOREM SettingsStayLocal == Spec => []ScopeMatchesSession
<1>1. Inv => ScopeMatchesSession
  BY DEF Inv, SessionInv
<1>2. QED
  BY <1>1, InvInductive, PTL

(* Users are isolated: no SELECT of a request returns a row of another user *)
(* (_apply_user_scope and the policies of scheduled_tasks), as whichever    *)
(* role the service connects.                                               *)
THEOREM UsersIsolated == Spec => []OwnRowsOnly
<1>1. Inv => OwnRowsOnly
  BY DEF Inv, SessionInv
<1>2. QED
  BY <1>1, InvInductive, PTL

(* record_* in a handler and in the executor store a history row under the  *)
(* id of the task's owner.                                                  *)
THEOREM AuditOwned == Spec => []AuditBelongsToOwner
<1>1. Inv => AuditBelongsToOwner
  <2>1. SUFFICES ASSUME Inv, NEW p \in Proc, Stores(p)
                 PROVE  RecordedUser(p) = Owner[proc[p].task]
    BY DEF AuditBelongsToOwner
  <2>2. CASE p \in Job
    BY <2>2 DEF RecordedUser
  <2>3. CASE p \notin Job
    <3>1. p \in Request /\ proc[p].task \in proc[p].seen
      BY <2>1, <2>3 DEF Stores, Proc, Inv, SessionInv, ProcessInv
    <3>2. Owner[proc[p].task] = proc[p].user
      BY <2>1, <3>1 DEF Inv, SessionInv, OwnRowsOnly
    <3>3. QED
      BY <2>3, <3>2 DEF RecordedUser
  <2>4. QED
    BY <2>2, <2>3
<1>2. QED
  BY <1>1, InvInductive, PTL

(* _load_task finds the task of a scheduled job whoever owns it.            *)
THEOREM ExecutorSeesAll == Spec => []JobsSeeEveryTask
<1>1. Inv => JobsSeeEveryTask
  BY DEF Inv, SessionInv
<1>2. QED
  BY <1>1, InvInductive, PTL

(* The flush of a request's history row passes the INSERT and the SELECT    *)
(* policy of task_history, also after a second session was open.            *)
THEOREM InsertsAccepted == Spec => []OwnInsertsAccepted
<1>1. Inv => OwnInsertsAccepted
  <2>1. SUFFICES ASSUME Inv, NEW p \in Proc, proc[p].pc = "end", proc[p].task # NULL,
                        p \in Request \/ role = "superuser"
                 PROVE  HistoryInsertPolicy(Main(p), RecordedUser(p))
    BY DEF OwnInsertsAccepted, Stores
  <2>2. CASE role = "superuser"
    BY <2>2 DEF HistoryInsertPolicy
  <2>3. CASE p \in Request
    <3>1. RecordedUser(p) = proc[p].user
      BY <2>3, ProcAssumption DEF RecordedUser
    <3>2. QED
      BY <2>1, <2>3, <3>1, InsertsUnderOwnSettings DEF HistoryInsertPolicy
  <2>4. QED
    BY <2>1, <2>2, <2>3
<1>2. QED
  BY <1>1, InvInductive, PTL

(* No connection leaks and none is taken twice, on any path through         *)
(* get_db, the executor and the data store, errors and timeouts included.   *)
THEOREM PoolAccounted == Spec => []PoolAccounting
<1>1. Inv => PoolAccounting
  <2>1. SUFFICES ASSUME Inv, NEW p \in Proc
                 PROVE  /\ Cardinality(Holds(p, "main")) =
                             IF proc[p].pc \in {"select", "second", "using", "end"} THEN 1 ELSE 0
                        /\ Cardinality(Holds(p, "second")) =
                             IF proc[p].pc = "using" /\ p \in Request THEN 1 ELSE 0
    BY DEF PoolAccounting
  <2>2. HoldingInv(p)
    BY <2>1 DEF Inv, SessionInv
  <2>3. Cardinality({}) = 0
    BY FS_EmptySet
  <2>4. \A c : Cardinality({c}) = 1
    BY FS_Singleton
  <2>5. QED
    BY <2>2, <2>3, <2>4 DEF HoldingInv, InSession
<1>2. QED
  BY <1>1, InvInductive, PTL

(* _require_executor and the session factory's None test cannot fail, and a *)
(* manual run finds the HTTP client open.                                   *)
THEOREM ExecutorAlwaysReady == Spec => []ExecutorReady
<1>1. Inv => ExecutorReady
  BY DEF Inv, PhaseInv, Phase, ExecutorReady, Proc
<1>2. QED
  BY <1>1, InvInductive, PTL

(* The engine is only disposed of when every session is closed and every    *)
(* connection is back in the pool.                                          *)
THEOREM DisposedUnused == Spec => []DisposedWhenUnused
<1>1. Inv => DisposedWhenUnused
  <2>1. SUFFICES ASSUME Inv, phase \in {"create_db", "enter", "configured", "disposed", "failed"}
                 PROVE  FreeConn = Conn /\ \A p \in Proc : proc[p] = Idle
    BY DEF DisposedWhenUnused
  <2>2. \A p \in Proc : proc[p].pc = "idle"
    BY <2>1 DEF Inv, PhaseInv, Proc
  <2>3. \A p \in Proc : proc[p] = Idle
    BY <2>1, <2>2 DEF Inv, SessionInv, ProcessInv
  <2>4. ASSUME NEW c \in Conn, conn[c].holder # NULL PROVE FALSE
    <3>1. conn[c].holder \in Proc /\ conn[c].part \in {"main", "second"}
      BY <2>1, <2>4 DEF Inv, SessionInv, SessionTypeOK, ConnectionInv, Connection
    <3>2. c \in Holds(conn[c].holder, "main") \/ c \in Holds(conn[c].holder, "second")
      BY <3>1 DEF Holds
    <3>3. QED
      BY <2>1, <2>2, <3>1, <3>2 DEF Inv, SessionInv, HoldingInv, InSession
  <2>5. QED
    BY <2>3, <2>4 DEF FreeConn
<1>2. QED
  BY <1>1, InvInductive, PTL
=============================================================================
