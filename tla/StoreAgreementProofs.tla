------------------------ MODULE StoreAgreementProofs ------------------------
(***************************************************************************)
(* Machine-checked proofs that the two stores of TaskLifecycle, the table   *)
(* and APScheduler's schedules, agree: for every set of tasks, triggers and *)
(* job slots, any number of requests in flight and both orders of commit    *)
(* and background task, as long as no two requests on the same task overlap *)
(* and no call fails.  (Where they overlap the stores do come apart: run    *)
(* race_unscheduled.)                                                       *)
(***************************************************************************)
EXTENDS TaskLifecycleProofs, FiniteSetTheorems

(* No two requests in flight are about the same task. *)
NoOverlap ==
  \A r, s \in Request : req[r].task = req[s].task /\ req[r].task # NULL => r = s

-----------------------------------------------------------------------------
(* The invariant, task by task. *)

(* The trigger of t has a fire time ahead of it. *)
Ahead(t) == Satisfiable(trigger[t]) /\ (OneShot(t) => trigger[t].n > now)

(* The schedule of t goes with its row. *)
Agree(t) ==
  /\ sched[t] # NULL => IsActive(t)
  /\ IsActive(t) /\ Ahead(t) => sched[t] # NULL

(* Request r has yet to add its schedule. *)
RegisterPending(r) ==
  /\ req[r].bg = "register"
  /\ req[r].pc = "background" \/ (CommitFirst /\ req[r].pc = "commit")

(* Between its handler and its last step a request finds both stores where  *)
(* it left them.                                                            *)
StartedInv(r) ==
  LET t == req[r].task IN
  req[r].op \in {"create", "activate"} =>
    /\ req[r].bg = "register" /\ req[r].pc \in {"background", "commit"}
    /\ RegisterPending(r) => sched[t] = NULL
    /\ ~RegisterPending(r) /\ Ahead(t) => sched[t] # NULL
    /\ row[t].status = IF CommitFirst /\ req[r].pc = "background" THEN "active"
                       ELSE IF req[r].op = "create" THEN "absent" ELSE "inactive"

StoppedInv(r) ==
  LET t == req[r].task IN
  req[r].op \in {"deactivate", "delete"} =>
    /\ req[r].bg \in {"unregister", "none"} /\ req[r].pc \in {"background", "commit"}
    /\ req[r].pc = "background" => req[r].bg = "unregister"
    /\ req[r].pc = "commit" /\ (req[r].bg = "none" \/ ~CommitFirst) => sched[t] = NULL
    /\ req[r].pc = "background" /\ CommitFirst => ~IsActive(t)
    /\ req[r].op = "deactivate" => Exists(t)

RunInv(r) == req[r].op = "run" => Agree(req[r].task)

RequestInv(r) == StartedInv(r) /\ StoppedInv(r) /\ RunInv(r)

(* Fire times are fire times of the trigger, the next ones. *)
FireTimeInv(t) ==
  sched[t] # NULL =>
    /\ Satisfiable(trigger[t])
    /\ trigger[t].type = "once" => sched[t] = trigger[t].n
    /\ trigger[t].type = "cron" => /\ \E k \in Nat : sched[t] = k * trigger[t].n
                                   /\ sched[t] <= now + trigger[t].n

(* A once task that was dispatched is past its time, and nothing schedules  *)
(* it again.                                                                *)
Underway(j, t) == job[j].pc \in {"queued", "firing"} /\ job[j].task = t

Fired(t) == Attempts(t) # {} \/ \E j \in Job : job[j].pc # "idle" /\ job[j].task = t

OnceInv(t) ==
  OneShot(t) =>
    /\ Fired(t) => /\ trigger[t].n <= now /\ sched[t] = NULL
                   /\ \A r \in Request : req[r].task = t => ~RegisterPending(r)
    /\ \A j, k \in Job : Underway(j, t) /\ Underway(k, t) => j = k
    /\ \A j \in Job : Underway(j, t) => Attempts(t) = {}
    /\ \A i, k \in Attempts(t) : i = k

AgreeInv(t) ==
  /\ Quiet(t) => Agree(t)
  /\ \A r \in Request : req[r].task = t => RequestInv(r)

TaskInv(t) == AgreeInv(t) /\ FireTimeInv(t) /\ OnceInv(t)

(* Slots that are free name no task, and only the job of a once task has a  *)
(* schedule to remove.                                                      *)
SlotInv ==
  /\ \A r \in Request : req[r].pc = "idle" => req[r] = IdleRequest
  /\ \A j \in Job : job[j].pc = "idle" => job[j] = IdleJob
  /\ \A j \in Job : job[j].pc = "remove" => OneShot(job[j].task)

StoreInv == SlotInv /\ \A t \in Task : TaskInv(t)

-----------------------------------------------------------------------------
(* What keeps the invariant of one task. *)

(* A schedule that stays or is removed keeps its fire time a valid one. *)
LEMMA FireTimeKept ==
  ASSUME TypeInv, TypeInv', NEW t \in Task, FireTimeInv(t), trigger'[t] = trigger[t], now' >= now,
         sched'[t] \in {sched[t], NULL}
  PROVE  FireTimeInv(t)'
<1> SUFFICES ASSUME sched'[t] # NULL
             PROVE  FireTimeInv(t)'
  BY DEF FireTimeInv
<1>1. sched'[t] = sched[t] /\ sched[t] \in Nat /\ now \in Nat /\ now' \in Nat
  BY DEF TypeInv, TypeOK, Time
<1>2. trigger[t].n \in Nat
  BY <1>1, TriggerAssumption DEF TypeInv, TypeOK, InFlight, TriggersKnown, TriggerSpec
<1>3. sched[t] <= now + trigger[t].n => sched[t] <= now' + trigger[t].n
  BY <1>1, <1>2
<1>4. QED
  BY <1>1, <1>3 DEF FireTimeInv

(* Steps that start no job, add no attempt and no request that will add a   *)
(* schedule keep what is known of a once task.                              *)
LEMMA OnceKept ==
  ASSUME TypeOK, TypeOK', NEW t \in Task, OnceInv(t), trigger'[t] = trigger[t], now' >= now,
         sched'[t] \in {sched[t], NULL}, Attempts(t)' = Attempts(t),
         \A j \in Job : Underway(j, t)' => Underway(j, t),
         \A j \in Job : job'[j].pc # "idle" /\ job'[j].task = t => job[j].pc # "idle" /\ job[j].task = t,
         \A r \in Request : req'[r].task = t /\ RegisterPending(r)' => req[r].task = t /\ RegisterPending(r)
  PROVE  OnceInv(t)'
<1> SUFFICES ASSUME OneShot(t)'
             PROVE  OnceInv(t)'
  BY DEF OnceInv
<1>1. OneShot(t) /\ trigger[t] # NULL /\ trigger[t].n \in Nat
  BY TriggerAssumption DEF OneShot, TypeOK, TriggerSpec
<1>2. Fired(t)' => Fired(t)
  BY DEF Fired
<1>3. Fired(t)' => trigger'[t].n <= now'
  BY <1>1, <1>2 DEF OnceInv, TypeOK
<1>4. Fired(t)' => sched'[t] = NULL /\ \A r \in Request : req'[r].task = t => ~RegisterPending(r)'
  BY <1>1, <1>2 DEF OnceInv
<1>5. /\ \A j, k \in Job : Underway(j, t)' /\ Underway(k, t)' => j = k
      /\ \A j \in Job : Underway(j, t)' => Attempts(t)' = {}
      /\ \A i, k \in Attempts(t)' : i = k
  BY <1>1 DEF OnceInv
<1>6. QED
  BY <1>3, <1>4, <1>5 DEF OnceInv

(* The requests on t, as a step of something else leaves them. *)
RequestsKept(t) ==
  /\ \A r \in Request : req'[r].task = t <=> req[r].task = t
  /\ \A r \in Request : req[r].task = t => req'[r] = req[r]

(* A step of something else leaves the two stores in agreement if it keeps  *)
(* the row, and a schedule as long as there is a fire time ahead.           *)
LEMMA AgreeKept ==
  ASSUME TypeInv, TypeInv', NEW t \in Task, AgreeInv(t), RequestsKept(t), trigger'[t] = trigger[t],
         now' >= now, row'[t] = row[t],
         sched'[t] # NULL => sched[t] # NULL,
         sched[t] # NULL /\ Ahead(t)' => sched'[t] # NULL
  PROVE  AgreeInv(t)'
<1>1. Ahead(t)' => Ahead(t)
  <2>1. trigger[t] # NULL => trigger[t].n \in Nat
    BY TriggerAssumption DEF TypeInv, TypeOK, TriggerSpec
  <2>2. QED
    BY <2>1 DEF Ahead, OneShot, TypeInv, TypeOK
<1>2. Agree(t) => Agree(t)'
  BY <1>1 DEF Agree, IsActive
<1>3. Quiet(t)' => Agree(t)'
  BY <1>2 DEF Quiet, RequestsKept, AgreeInv
<1>4. ASSUME NEW r \in Request, req'[r].task = t
      PROVE  RequestInv(r)'
  <2>1. req[r].task = t /\ req'[r] = req[r] /\ RequestInv(r)
    BY <1>4 DEF RequestsKept, AgreeInv
  <2>2. RegisterPending(r)' <=> RegisterPending(r)
    BY <2>1 DEF RegisterPending
  <2>3. StartedInv(r)'
    BY <1>1, <2>1, <2>2 DEF RequestInv, StartedInv
  <2>4. StoppedInv(r)'
    <3>1. sched[t] = NULL => sched'[t] = NULL
      OBVIOUS
    <3>2. QED
      BY <2>1, <3>1 DEF RequestInv, StoppedInv, IsActive, Exists
  <2>5. RunInv(r)'
    BY <1>2, <2>1 DEF RequestInv, RunInv
  <2>6. QED
    BY <2>3, <2>4, <2>5 DEF RequestInv
<1>5. QED
  BY <1>3, <1>4 DEF AgreeInv

(* A task that a step is not about. *)
JobsKept(t) ==
  \A j \in Job : job[j].task = t \/ job'[j].task = t => job'[j] = job[j]

(* Its invariant is kept. *)
LEMMA Untouched ==
  ASSUME TypeInv, TypeInv', NEW t \in Task, TaskInv(t), RequestsKept(t), JobsKept(t),
         trigger'[t] = trigger[t], now' >= now, row'[t] = row[t], sched'[t] = sched[t],
         history'[t] = history[t]
  PROVE  TaskInv(t)'
<1>1. AgreeInv(t)'
  BY AgreeKept DEF TaskInv
<1>2. FireTimeInv(t)'
  BY FireTimeKept DEF TaskInv
<1>3. Attempts(t)' = Attempts(t)
  BY DEF Attempts
<1>4. \A j \in Job : /\ Underway(j, t)' => Underway(j, t)
                     /\ job'[j].pc # "idle" /\ job'[j].task = t => job[j].pc # "idle" /\ job[j].task = t
  BY DEF JobsKept, Underway
<1>5. \A r \in Request : req'[r].task = t /\ RegisterPending(r)' => req[r].task = t /\ RegisterPending(r)
  BY DEF RequestsKept, RegisterPending
<1>6. OnceInv(t)'
  BY <1>3, <1>4, <1>5, OnceKept DEF TaskInv, TypeInv
<1>7. QED
  BY <1>1, <1>2, <1>6 DEF TaskInv

-----------------------------------------------------------------------------
(* Fire times. *)

(* The first match of a cron expression from x on is one, and less than a   *)
(* period away.                                                             *)
LEMMA FirstMatchMultiple ==
  ASSUME NEW n \in Nat, n > 0, NEW x \in Nat
  PROVE  /\ \E k \in Nat : FirstMatch(n, x) = k * n
         /\ FirstMatch(n, x) \in Nat /\ x <= FirstMatch(n, x) /\ FirstMatch(n, x) < x + n
<1> DEFINE d == (-x) \div n
           m == (-x) % n
<1>1. m \in 0 .. n - 1 /\ d \in Int
  OBVIOUS
<1>2. -x = n * d + m
  OBVIOUS
<1>3. FirstMatch(n, x) = x + m
  BY DEF FirstMatch
<1> HIDE DEF d, m
<1>4. x + m = (0 - d) * n
  BY <1>1, <1>2
<1>5. 0 - d \in Nat
  <2>1. SUFFICES ASSUME d >= 1
                 PROVE  FALSE
    BY <1>1
  <2>2. n * d >= n
    BY <1>1, <2>1
  <2>3. QED
    BY <1>1, <1>2, <2>2
<1>6. FirstMatch(n, x) = (0 - d) * n
  BY <1>3, <1>4
<1>7. \E k \in Nat : FirstMatch(n, x) = k * n
  BY <1>5, <1>6, Zenon
<1>8. FirstMatch(n, x) \in Nat /\ x <= FirstMatch(n, x) /\ FirstMatch(n, x) < x + n
  BY <1>1, <1>3
<1>9. QED
  BY <1>7, <1>8

(* A trigger is of one of three kinds. *)
LEMMA TriggerKinds ==
  ASSUME TypeInv, NEW t \in Task, trigger[t] # NULL
  PROVE  /\ trigger[t] \in TriggerSpec /\ trigger[t].n \in Nat
         /\ trigger[t].type \in {"once", "cron", "interval"}
         /\ OneShot(t) <=> trigger[t].type = "once"
BY TriggerAssumption, NullIsNoTask
   DEF TypeInv, TypeOK, TriggerSpec, TriggerType, OneShot, IsOnce

(* A schedule that is added has the first fire time of its trigger, if      *)
(* there is one.                                                            *)
LEMMA RegisterFireTime ==
  ASSUME TypeInv, TypeInv', NEW t \in Task, trigger[t] # NULL, trigger'[t] = trigger[t], now' = now,
         sched'[t] = compute_next_run_at(trigger[t], now)
  PROVE  FireTimeInv(t)' /\ (sched'[t] # NULL <=> Satisfiable(trigger[t]))
<1>1. /\ trigger[t] \in TriggerSpec /\ trigger[t].n \in Nat /\ now \in Nat
      /\ trigger[t].type \in {"once", "cron", "interval"}
  BY TriggerKinds DEF TypeInv, TypeOK
<1>2. sched'[t] # NULL <=> Satisfiable(trigger[t])
  BY <1>1, NextRunAtType
<1>3. CASE trigger[t].type = "cron" /\ trigger[t].n > 0
  <2>1. sched'[t] = FirstMatch(trigger[t].n, now)
    BY <1>3 DEF compute_next_run_at
  <2>2. /\ \E k \in Nat : sched'[t] = k * trigger[t].n
        /\ sched'[t] \in Nat /\ sched'[t] < now + trigger[t].n
    <3> DEFINE n == trigger[t].n
    <3>1. n \in Nat /\ n > 0 /\ now \in Nat
      BY <1>1, <1>3
    <3> HIDE DEF n
    <3>2. /\ \E k \in Nat : FirstMatch(n, now) = k * n
          /\ FirstMatch(n, now) \in Nat /\ FirstMatch(n, now) < now + n
      BY <3>1, FirstMatchMultiple, Zenon
    <3>3. QED
      BY <2>1, <3>2, Zenon DEF n
  <2>3. sched'[t] <= now + trigger[t].n
    BY <1>1, <2>2
  <2>4. QED
    BY <1>2, <1>3, <2>2, <2>3 DEF FireTimeInv
<1>4. CASE ~(trigger[t].type = "cron" /\ trigger[t].n > 0)
  <2>1. trigger[t].type = "cron" => sched'[t] = NULL
    BY <1>1, <1>2, <1>4 DEF Satisfiable
  <2>2. trigger[t].type = "once" => sched'[t] = trigger[t].n
    BY DEF compute_next_run_at
  <2>3. QED
    BY <1>2, <2>1, <2>2 DEF FireTimeInv
<1>5. QED
  BY <1>2, <1>3, <1>4

(* A schedule that is dispatched has the next fire time, if there is one,   *)
(* and there is one unless the task is a once task.                         *)
LEMMA DispatchFireTime ==
  ASSUME TypeInv, TypeInv', NEW j \in Job, NEW t \in Task, FireTimeInv(t), Dispatch(j, t)
  PROVE  /\ FireTimeInv(t)'
         /\ Satisfiable(trigger[t])
         /\ OneShot(t) => sched[t] = trigger[t].n /\ sched'[t] = NULL /\ trigger[t].n <= now
         /\ ~OneShot(t) => sched'[t] # NULL
<1>1. /\ sched[t] # NULL /\ sched[t] <= now /\ sched[t] \in Nat /\ now \in Nat
      /\ sched'[t] = NextFire(trigger[t], sched[t], now)
      /\ trigger' = trigger /\ now' = now
  BY DEF Dispatch, TypeInv, TypeOK, Time
<1>2. trigger[t] # NULL
  BY <1>1 DEF TypeInv, InFlight, TriggersKnown
<1>3. /\ trigger[t] \in TriggerSpec /\ trigger[t].n \in Nat
      /\ trigger[t].type \in {"once", "cron", "interval"}
      /\ OneShot(t) <=> trigger[t].type = "once"
  BY <1>2, TriggerKinds
<1>4. Satisfiable(trigger[t]) /\ (trigger[t].type = "once" => sched[t] = trigger[t].n)
  BY <1>1 DEF FireTimeInv
<1>5. CASE trigger[t].type = "once"
  <2>1. sched'[t] = NULL
    BY <1>1, <1>5 DEF NextFire
  <2>2. QED
    BY <1>1, <1>3, <1>4, <1>5, <2>1 DEF FireTimeInv
<1>6. CASE trigger[t].type = "interval"
  <2>1. trigger[t].n > 0
    BY <1>3, <1>6 DEF TriggerSpec
  <2>2. sched'[t] = now + trigger[t].n - ((now - sched[t]) % trigger[t].n)
    BY <1>1, <1>6 DEF NextFire
  <2>3. (now - sched[t]) % trigger[t].n \in Int
    BY <1>1, <1>3, <2>1
  <2>4. sched'[t] # NULL
    BY <1>1, <1>3, <2>2, <2>3, NullAssumption
  <2>5. QED
    BY <1>1, <1>3, <1>4, <1>6, <2>4 DEF FireTimeInv
<1>7. CASE trigger[t].type = "cron"
  <2>1. trigger[t].n > 0
    BY <1>3, <1>4, <1>7 DEF Satisfiable
  <2>2. sched'[t] = FirstMatch(trigger[t].n, now + 1)
    BY <1>1, <1>7, <2>1 DEF NextFire
  <2>3. /\ \E k \in Nat : sched'[t] = k * trigger[t].n
        /\ sched'[t] \in Nat /\ sched'[t] < now + 1 + trigger[t].n
    <3> DEFINE n == trigger[t].n
               x == now + 1
    <3>1. n \in Nat /\ n > 0 /\ x \in Nat
      BY <1>1, <1>3, <2>1
    <3> HIDE DEF n, x
    <3>2. /\ \E k \in Nat : FirstMatch(n, x) = k * n
          /\ FirstMatch(n, x) \in Nat /\ FirstMatch(n, x) < x + n
      BY <3>1, FirstMatchMultiple, Zenon
    <3>3. QED
      BY <2>2, <3>2, Zenon DEF n, x
  <2>4. sched'[t] # NULL /\ sched'[t] <= now + trigger[t].n
    BY <1>1, <1>3, <2>3, NullAssumption
  <2>5. FireTimeInv(t)'
    BY <1>1, <1>4, <1>7, <2>3, <2>4 DEF FireTimeInv
  <2>6. QED
    BY <1>3, <1>4, <1>7, <2>4, <2>5
<1>8. QED
  BY <1>3, <1>5, <1>6, <1>7

-----------------------------------------------------------------------------
(* The steps of a request. *)

(* A request that made its last step leaves agreement behind. *)
LEMMA LastStep ==
  ASSUME TypeInv, NoOverlap, NEW t \in Task, NEW r \in Request, req[r].task = t, Progress(r),
         req'[r] = IdleRequest, Agree(t)'
  PROVE  AgreeInv(t)'
<1>1. \A s \in Request : req'[s].task # t
  BY NullIsNoTask DEF Progress, NoOverlap, IdleRequest
<1>2. QED
  BY <1>1 DEF AgreeInv

(* A request that goes on is the only one on its task. *)
LEMMA FurtherStep ==
  ASSUME TypeInv, NoOverlap, NEW t \in Task, NEW r \in Request, req[r].task = t, Progress(r),
         req'[r].task = t, RequestInv(r)'
  PROVE  AgreeInv(t)'
<1>1. \A s \in Request : req'[s].task = t => s = r
  BY NullIsNoTask DEF Progress, NoOverlap
<1>2. ~Quiet(t)'
  BY DEF Quiet
<1>3. QED
  BY <1>1, <1>2 DEF AgreeInv

(* A request on its way is that of a known handler, and its background task *)
(* adds or removes a schedule according to that handler.                    *)
LEMMA Handlers ==
  ASSUME TypeInv, KnownInv, StoreInv, NEW r \in Request, req[r].pc # "idle"
  PROVE  /\ req[r].task \in Task /\ trigger[req[r].task] # NULL /\ TaskInv(req[r].task)
         /\ RequestInv(r)
         /\ \/ req[r].op \in {"create", "activate"} /\ req[r].bg = "register"
            \/ req[r].op \in {"deactivate", "delete"} /\ req[r].bg # "register"
            \/ req[r].op = "run" /\ req[r].pc \in {"load", "firing"}
<1>1. req[r].task \in Task /\ trigger[req[r].task] # NULL /\ req[r].op \in Op
  BY DEF TypeInv, InFlight, RequestsInFlight
<1>2. TaskInv(req[r].task) /\ RequestInv(r)
  BY <1>1 DEF StoreInv, TaskInv, AgreeInv
<1>3. req[r].op = "run" <=> req[r].pc \in {"load", "firing"}
  BY DEF KnownInv, RequestsKnown
<1>4. QED
  BY <1>1, <1>2, <1>3 DEF Op, RequestInv, StartedInv, StoppedInv

(* The schedule is added: to a row that is active, or will be. *)
LEMMA RegisterStep ==
  ASSUME TypeInv, TypeInv', KnownInv, StoreInv, NoOverlap,
         NEW r \in Request, NEW t \in Task, req[r].task = t, register_schedule(r)
  PROVE  TaskInv(t)'
<1>1. /\ req[r].pc = "background" /\ req[r].bg = "register" /\ RegisterPending(r)
      /\ UNCHANGED <<now, trigger, row, history, job>>
      /\ BackgroundDone(r) /\ sched' = ScheduleAfter(r)
  BY DEF register_schedule, RegisterPending
<1>2. /\ trigger[t] # NULL /\ TaskInv(t) /\ RequestInv(r)
      /\ req[r].op \in {"create", "activate"}
  BY <1>1, Handlers
<1>3. sched'[t] = compute_next_run_at(trigger[t], now)
  BY <1>1, <1>2 DEF ScheduleAfter, TypeInv, TypeOK
<1>4. FireTimeInv(t)' /\ (sched'[t] # NULL <=> Satisfiable(trigger[t]))
  BY <1>1, <1>2, <1>3, RegisterFireTime
<1>5. Progress(r)
  BY RequestStepProgress DEF RequestStep, TypeInv
<1>6. AgreeInv(t)'
  <2>1. Ahead(t)' => sched'[t] # NULL
    BY <1>1, <1>4 DEF Ahead
  <2>2. CASE CommitFirst
    <3>1. req'[r] = IdleRequest
      BY <1>1, <2>2 DEF BackgroundDone, TypeInv, TypeOK
    <3>2. row'[t].status = "active"
      BY <1>1, <1>2, <2>2 DEF RequestInv, StartedInv
    <3>3. Agree(t)'
      BY <2>1, <3>2 DEF Agree, IsActive
    <3>4. QED
      BY <1>2, <1>5, <3>1, <3>3, LastStep
  <2>3. CASE ~CommitFirst
    <3>1. /\ req'[r].pc = "commit" /\ req'[r].op = req[r].op /\ req'[r].bg = "register"
          /\ req'[r].task = t
      BY <1>1, <2>3 DEF BackgroundDone, TypeInv, TypeOK, RequestState
    <3>2. ~RegisterPending(r)'
      BY <2>3, <3>1 DEF RegisterPending
    <3>3. row'[t].status = IF req[r].op = "create" THEN "absent" ELSE "inactive"
      BY <1>1, <1>2, <2>3 DEF RequestInv, StartedInv
    <3>4. StartedInv(r)'
      BY <2>1, <2>3, <3>1, <3>2, <3>3 DEF StartedInv
    <3>5. StoppedInv(r)' /\ RunInv(r)'
      BY <1>2, <3>1 DEF StoppedInv, RunInv
    <3>6. QED
      BY <1>2, <1>5, <3>1, <3>4, <3>5, FurtherStep DEF RequestInv
  <2>4. QED
    BY <2>2, <2>3
<1>7. OnceInv(t)'
  <2> SUFFICES ASSUME OneShot(t)'
               PROVE  OnceInv(t)'
    BY DEF OnceInv
  <2>1. OneShot(t)
    BY <1>1 DEF OneShot
  <2>2. ~Fired(t)
    BY <1>1, <1>2, <2>1 DEF TaskInv, OnceInv
  <2>3. Attempts(t)' = {} /\ \A j \in Job : ~(job'[j].pc # "idle" /\ job'[j].task = t)
    BY <1>1, <2>2 DEF Fired, Attempts
  <2>4. QED
    BY <2>3 DEF OnceInv, Fired, Underway
<1>8. QED
  BY <1>4, <1>6, <1>7 DEF TaskInv

(* The schedule is removed: of a row that is not active, or will not be. *)
LEMMA UnregisterStep ==
  ASSUME TypeInv, TypeInv', KnownInv, StoreInv, NoOverlap,
         NEW r \in Request, NEW t \in Task, req[r].task = t, unregister_schedule(r)
  PROVE  TaskInv(t)'
<1>1. /\ req[r].pc = "background" /\ req[r].bg = "unregister"
      /\ UNCHANGED <<now, trigger, row, history, job>>
      /\ BackgroundDone(r) /\ sched' = ScheduleAfter(r)
  BY DEF unregister_schedule
<1>2. /\ trigger[t] # NULL /\ TaskInv(t) /\ RequestInv(r)
      /\ req[r].op \in {"deactivate", "delete"}
  BY <1>1, Handlers
<1>3. sched'[t] = NULL
  BY <1>1 DEF ScheduleAfter, TypeInv, TypeOK
<1>4. Progress(r)
  BY RequestStepProgress DEF RequestStep, TypeInv
<1>5. AgreeInv(t)'
  <2>1. CASE CommitFirst
    <3>1. req'[r] = IdleRequest
      BY <1>1, <2>1 DEF BackgroundDone, TypeInv, TypeOK
    <3>2. ~IsActive(t)
      BY <1>1, <1>2, <2>1 DEF RequestInv, StoppedInv
    <3>3. Agree(t)'
      BY <1>1, <1>3, <3>2 DEF Agree, IsActive
    <3>4. QED
      BY <1>4, <3>1, <3>3, LastStep
  <2>2. CASE ~CommitFirst
    <3>1. /\ req'[r].pc = "commit" /\ req'[r].op = req[r].op /\ req'[r].bg = "unregister"
          /\ req'[r].task = t
      BY <1>1, <2>2 DEF BackgroundDone, TypeInv, TypeOK, RequestState
    <3>2. StoppedInv(r)'
      BY <1>1, <1>2, <1>3, <2>2, <3>1 DEF RequestInv, StoppedInv, Exists
    <3>3. StartedInv(r)' /\ RunInv(r)'
      BY <1>2, <3>1 DEF StartedInv, RunInv
    <3>4. QED
      BY <1>4, <3>1, <3>2, <3>3, FurtherStep DEF RequestInv
  <2>3. QED
    BY <2>1, <2>2
<1>6. FireTimeInv(t)'
  BY <1>1, <1>2, <1>3, FireTimeKept DEF TaskInv, TypeInv, TypeOK
<1>7. OnceInv(t)'
  <2>1. Attempts(t)' = Attempts(t) /\ \A j \in Job : Underway(j, t)' => Underway(j, t)
    BY <1>1 DEF Attempts, Underway
  <2>2. \A s \in Request : req'[s].task = t /\ RegisterPending(s)' => req[s].task = t /\ RegisterPending(s)
    BY <1>1, <1>4 DEF Progress, RegisterPending, IdleRequest
  <2>3. /\ TypeOK /\ TypeOK' /\ OnceInv(t) /\ now' >= now /\ trigger'[t] = trigger[t]
        /\ \A j \in Job : job'[j] = job[j]
    BY <1>1, <1>2 DEF TaskInv, TypeInv, TypeOK
  <2>4. QED
    BY <1>3, <2>1, <2>2, <2>3, OnceKept
<1>8. QED
  BY <1>5, <1>6, <1>7 DEF TaskInv

(* The attempts an event adds: those of the executor, and no other. *)
LEMMA AttemptsAfter ==
  ASSUME TypeInv, NEW t \in Task, NEW e \in Event, Append1(t, e)
  PROVE  Attempts(t)' = IF e \in {"scheduled_ok", "scheduled_failed"}
                        THEN Attempts(t) \cup {Len(history[t]) + 1} ELSE Attempts(t)
<1> DEFINE h == history[t]
           n == Len(h)
<1>1. history'[t] = Append(h, e) /\ h \in Seq(Event)
  BY DEF TypeInv, TypeOK, Append1
<1>2. n \in Nat /\ DOMAIN h = 1 .. n
  BY <1>1
<1>3. /\ DOMAIN history'[t] = 1 .. n + 1 /\ history'[t][n + 1] = e
      /\ \A i \in 1 .. n : history'[t][i] = h[i]
  BY <1>1
<1> HIDE DEF n
<1>4. 1 .. n + 1 = (1 .. n) \cup {n + 1}
  BY <1>2
<1>5. QED
  BY <1>2, <1>3, <1>4 DEF Attempts, n

(* The transaction is committed: the row follows the schedule, or the       *)
(* schedule is about to follow the row.                                     *)
LEMMA CommitStep ==
  ASSUME TypeInv, TypeInv', KnownInv, StoreInv, NoOverlap,
         NEW r \in Request, NEW t \in Task, req[r].task = t, Commit(r)
  PROVE  TaskInv(t)'
<1>1. /\ req[r].pc = "commit" /\ UNCHANGED <<now, trigger, sched, job>>
      /\ row' = [row EXCEPT ![t] = CommittedRow(r)] /\ Append1(t, CommittedEvent(r))
      /\ CommitDone(r)
  BY DEF Commit
<1>2. /\ trigger[t] # NULL /\ TaskInv(t) /\ RequestInv(r)
      /\ \/ req[r].op \in {"create", "activate"} /\ req[r].bg = "register"
         \/ req[r].op \in {"deactivate", "delete"} /\ req[r].bg \in {"unregister", "none"}
  <2>1. RequestInv(r)
    BY <1>1, Handlers
  <2>2. QED
    BY <1>1, <2>1, Handlers DEF RequestInv, StoppedInv
<1>3. row'[t] = CommittedRow(r)
  BY <1>1 DEF TypeInv, TypeOK
<1>4. Progress(r)
  BY RequestStepProgress DEF RequestStep, TypeInv
<1>5. ASSUME CommitFirst /\ req[r].bg # "none"
      PROVE  AgreeInv(t)'
  <2>1. /\ req'[r].pc = "background" /\ req'[r].op = req[r].op /\ req'[r].bg = req[r].bg
        /\ req'[r].task = t
    BY <1>1, <1>5 DEF CommitDone, TypeInv, TypeOK, RequestState
  <2>2. CASE req[r].op \in {"create", "activate"}
    <3>1. row'[t].status = "active"
      BY <1>3, <2>2 DEF CommittedRow, ActiveRow
    <3>2. RegisterPending(r) /\ RegisterPending(r)'
      BY <1>1, <1>2, <1>5, <2>1, <2>2 DEF RegisterPending
    <3>3. sched'[t] = NULL
      BY <1>1, <1>2, <2>2, <3>2 DEF RequestInv, StartedInv
    <3>4. StartedInv(r)' /\ StoppedInv(r)' /\ RunInv(r)'
      BY <1>2, <1>5, <2>1, <2>2, <3>1, <3>2, <3>3 DEF StartedInv, StoppedInv, RunInv
    <3>5. QED
      BY <1>4, <2>1, <3>4, FurtherStep DEF RequestInv
  <2>3. CASE req[r].op \in {"deactivate", "delete"}
    <3>1. row'[t].status = IF req[r].op = "deactivate" THEN "inactive" ELSE "absent"
      BY <1>3, <2>3 DEF CommittedRow, InactiveRow, Absent
    <3>2. StartedInv(r)' /\ StoppedInv(r)' /\ RunInv(r)'
      BY <1>2, <1>5, <2>1, <2>3, <3>1 DEF StartedInv, StoppedInv, RunInv, IsActive, Exists
    <3>3. QED
      BY <1>4, <2>1, <3>2, FurtherStep DEF RequestInv
  <2>4. QED
    BY <1>2, <2>2, <2>3
<1>6. ASSUME ~(CommitFirst /\ req[r].bg # "none")
      PROVE  AgreeInv(t)'
  <2>1. req'[r] = IdleRequest
    BY <1>1, <1>6 DEF CommitDone, TypeInv, TypeOK
  <2>2. CASE req[r].op \in {"create", "activate"}
    <3>1. row'[t].status = "active"
      BY <1>3, <2>2 DEF CommittedRow, ActiveRow
    <3>2. ~RegisterPending(r)
      BY <1>1, <1>2, <1>6, <2>2 DEF RegisterPending
    <3>3. Ahead(t)' => sched'[t] # NULL
      BY <1>1, <1>2, <2>2, <3>2 DEF RequestInv, StartedInv, Ahead, OneShot
    <3>4. Agree(t)'
      BY <3>1, <3>3 DEF Agree, IsActive
    <3>5. QED
      BY <1>4, <2>1, <3>4, LastStep
  <2>3. CASE req[r].op \in {"deactivate", "delete"}
    <3>1. row'[t].status # "active"
      BY <1>3, <2>3 DEF CommittedRow, InactiveRow, Absent
    <3>2. sched'[t] = NULL
      BY <1>1, <1>2, <1>6, <2>3 DEF RequestInv, StoppedInv
    <3>3. Agree(t)'
      BY <3>1, <3>2 DEF Agree, IsActive
    <3>4. QED
      BY <1>4, <2>1, <3>3, LastStep
  <2>4. QED
    BY <1>2, <2>2, <2>3
<1>7. FireTimeInv(t)'
  BY <1>1, <1>2, FireTimeKept DEF TaskInv, TypeInv, TypeOK
<1>8. OnceInv(t)'
  <2>1. /\ CommittedEvent(r) \in Event
        /\ CommittedEvent(r) \notin {"scheduled_ok", "scheduled_failed"}
    BY DEF CommittedEvent, Event, LifecycleEvent
  <2>2. Attempts(t)' = Attempts(t)
    BY <1>1, <2>1, AttemptsAfter
  <2>3. \A s \in Request : req'[s].task = t /\ RegisterPending(s)' => req[s].task = t /\ RegisterPending(s)
    <3>1. ASSUME NEW s \in Request, s # r
          PROVE  req'[s] = req[s]
      BY <1>4, <3>1 DEF Progress
    <3>2. RegisterPending(r)' => RegisterPending(r)
      BY <1>1 DEF CommitDone, TypeInv, TypeOK, RequestState, RegisterPending, IdleRequest
    <3>3. QED
      BY <3>1, <3>2 DEF RegisterPending
  <2>4. \A j \in Job : Underway(j, t)' => Underway(j, t)
    BY <1>1 DEF Underway
  <2>5. /\ TypeOK /\ TypeOK' /\ OnceInv(t) /\ now' >= now /\ trigger'[t] = trigger[t]
        /\ sched'[t] = sched[t] /\ \A j \in Job : job'[j] = job[j]
    BY <1>1, <1>2 DEF TaskInv, TypeInv, TypeOK
  <2>6. QED
    BY <2>2, <2>3, <2>4, <2>5, OnceKept
<1>9. QED
  BY <1>5, <1>6, <1>7, <1>8 DEF TaskInv

(* The steps of a request that write neither store. *)
LEMMA QuietStep ==
  ASSUME TypeInv, TypeInv', KnownInv, StoreInv, NoOverlap, Faults = {},
         NEW r \in Request, NEW t \in Task, req[r].task = t,
         Rollback(r) \/ run_task_manually(r) \/ RecordManualRun(r)
  PROVE  TaskInv(t)'
<1>1. UNCHANGED <<now, trigger, row, sched, job>>
  BY DEF Rollback, run_task_manually, RecordManualRun
<1>2. req[r].pc # "idle" /\ TaskInv(t) /\ RequestInv(r)
  BY Handlers DEF Rollback, run_task_manually, RecordManualRun
<1>3. Progress(r)
  BY RequestStepProgress DEF RequestStep, TypeInv
<1>4. ~Rollback(r)
  <2> SUFFICES ASSUME Rollback(r)
               PROVE  FALSE
    OBVIOUS
  <2>1. req[r].pc = "commit" /\ req[r].op \in {"activate", "deactivate"} /\ ~Exists(t)
    BY DEF Rollback, Stale
  <2>2. req[r].op = "activate" => row[t].status = "inactive"
    BY <1>2, <2>1 DEF RequestInv, StartedInv
  <2>3. req[r].op = "deactivate" => Exists(t)
    BY <1>2, <2>1 DEF RequestInv, StoppedInv
  <2>4. QED
    BY <2>1, <2>2, <2>3 DEF Exists
<1>5. req[r].op = "run"
  BY <1>4 DEF KnownInv, RequestsKnown, run_task_manually, RecordManualRun
<1>6. Agree(t)'
  <2>1. Agree(t)
    BY <1>2, <1>5 DEF RequestInv, RunInv
  <2>2. QED
    BY <1>1, <2>1 DEF Agree, IsActive, Ahead, OneShot
<1>7. AgreeInv(t)'
  <2>1. CASE req'[r] = IdleRequest
    BY <1>3, <1>6, <2>1, LastStep
  <2>2. CASE req'[r] # IdleRequest
    <3>1. req'[r].task = t /\ req'[r].op = "run"
      BY <1>3, <1>5, <2>2 DEF Progress
    <3>2. RequestInv(r)'
      BY <1>6, <3>1 DEF RequestInv, StartedInv, StoppedInv, RunInv
    <3>3. QED
      BY <1>3, <3>1, <3>2, FurtherStep
  <2>3. QED
    BY <2>1, <2>2
<1>8. FireTimeInv(t)'
  BY <1>1, <1>2, FireTimeKept DEF TaskInv, TypeInv, TypeOK
<1>9. OnceInv(t)'
  <2>1. Attempts(t)' = Attempts(t)
    <3>1. CASE UNCHANGED history
      BY <3>1 DEF Attempts
    <3>2. CASE \E e \in {"manual_ok", "manual_failed"} : Append1(t, e)
      BY <3>2, AttemptsAfter DEF Event
    <3>3. QED
      BY <1>4, <3>1, <3>2 DEF run_task_manually, RecordManualRun
  <2>2. \A s \in Request : req'[s].task = t /\ RegisterPending(s)' => req[s].task = t /\ RegisterPending(s)
    <3>1. ASSUME NEW s \in Request, s # r
          PROVE  req'[s] = req[s]
      BY <1>3, <3>1 DEF Progress
    <3>2. req'[r].pc \in {"idle", "firing"}
      BY <1>4 DEF run_task_manually, RecordManualRun, TypeInv, TypeOK, RequestState, IdleRequest
    <3>3. QED
      BY <3>1, <3>2 DEF RegisterPending
  <2>3. \A j \in Job : Underway(j, t)' => Underway(j, t)
    BY <1>1 DEF Underway
  <2>4. /\ TypeOK /\ TypeOK' /\ OnceInv(t) /\ now' >= now /\ trigger'[t] = trigger[t]
        /\ sched'[t] = sched[t] /\ \A j \in Job : job'[j] = job[j]
    BY <1>1, <1>2 DEF TaskInv, TypeInv, TypeOK
  <2>5. QED
    BY <2>1, <2>2, <2>3, <2>4, OnceKept
<1>10. QED
  BY <1>7, <1>8, <1>9 DEF TaskInv

(* The steps of a request keep the invariant of every task. *)
LEMMA RequestKeepsTasks ==
  ASSUME TypeInv, TypeInv', KnownInv, StoreInv, NoOverlap, Faults = {},
         NEW r \in Request, RequestStep(r), NEW u \in Task
  PROVE  TaskInv(u)'
<1>1. req[r].pc # "idle" /\ ~BackgroundFails(r)
  BY DEF RequestStep, register_schedule, unregister_schedule, BackgroundFails, Commit, Rollback,
         run_task_manually, RecordManualRun
<1>2. PICK t \in Task : req[r].task = t
  BY <1>1, Handlers
<1>3. CASE u = t
  BY <1>1, <1>2, <1>3, RegisterStep, UnregisterStep, CommitStep, QuietStep DEF RequestStep
<1>4. CASE u # t
  <2>1. Progress(r)
    BY RequestStepProgress DEF TypeInv
  <2>2. RequestsKept(u)
    BY <1>2, <1>4, <2>1, NullIsNoTask DEF Progress, RequestsKept, IdleRequest
  <2>3. UNCHANGED <<now, trigger, job>>
    BY DEF RequestStep, register_schedule, unregister_schedule, BackgroundFails, Commit, Rollback,
           run_task_manually, RecordManualRun
  <2>4. sched'[u] = sched[u]
    BY <1>1, <1>2, <1>4 DEF RequestStep, register_schedule, unregister_schedule, Commit, Rollback,
           run_task_manually, RecordManualRun, ScheduleAfter, TypeInv, TypeOK
  <2>5. row'[u] = row[u]
    BY <1>1, <1>2, <1>4 DEF RequestStep, register_schedule, unregister_schedule, Commit, Rollback,
           run_task_manually, RecordManualRun, TypeInv, TypeOK
  <2>6. history'[u] = history[u]
    BY <1>1, <1>2, <1>4 DEF RequestStep, register_schedule, unregister_schedule, Commit, Rollback,
           run_task_manually, RecordManualRun, Append1, TypeInv, TypeOK
  <2>7. TaskInv(u) /\ JobsKept(u) /\ now' >= now
    BY <2>3 DEF StoreInv, JobsKept, TypeInv, TypeOK
  <2>8. QED
    BY <2>2, <2>3, <2>4, <2>5, <2>6, <2>7, Untouched
<1>5. QED
  BY <1>3, <1>4

-----------------------------------------------------------------------------
(* New requests. *)

(* A handler accepts a request on a task that no other request is about, so *)
(* that it finds the two stores in agreement.                               *)
LEMMA Accepted ==
  ASSUME TypeInv, StoreInv, NoOverlap', NEW r \in Request, NEW t \in Task, req[r].pc = "idle",
         \A s \in Request \ {r} : req'[s] = req[s], req'[r].task = t
  PROVE  /\ Agree(t) /\ TaskInv(t)
         /\ RequestInv(r)' => AgreeInv(t)'
         /\ \A u \in Task \ {t} : RequestsKept(u)
         /\ \A s \in Request \ {r} : req[s].task # t
<1>1. req[r].task = NULL
  BY DEF StoreInv, SlotInv, IdleRequest
<1>2. \A s \in Request : req'[s].task = t => s = r
  BY NullIsNoTask DEF NoOverlap
<1>3. Quiet(t)
  BY <1>1, <1>2, NullIsNoTask DEF Quiet
<1>4. TaskInv(t) /\ Agree(t)
  BY <1>3 DEF StoreInv, TaskInv, AgreeInv
<1>5. ~Quiet(t)'
  BY DEF Quiet
<1>6. RequestInv(r)' => AgreeInv(t)'
  BY <1>2, <1>5 DEF AgreeInv
<1>7. \A u \in Task \ {t} : RequestsKept(u)
  BY <1>1, NullIsNoTask DEF RequestsKept
<1>8. QED
  BY <1>2, <1>4, <1>6, <1>7

(* What a handler leaves to be done. *)
LEMMA Deferred ==
  ASSUME TypeInv, NEW r \in Request, NEW op \in Op, NEW t \in Task,
         NEW bg \in {"none", "register", "unregister"}, NEW next, Defer(r, op, t, bg, next)
  PROVE  /\ \A s \in Request \ {r} : req'[s] = req[s]
         /\ req'[r].pc = IF bg = "none" \/ CommitFirst THEN "commit" ELSE "background"
         /\ req'[r].op = op /\ req'[r].task = t /\ req'[r].bg = bg
BY DEF Defer, TypeInv, TypeOK

(* create_task: a task without row, schedule, job or history. *)
LEMMA CreateKeepsTasks ==
  ASSUME TypeInv, TypeInv', KnownInv, StoreInv, NoOverlap', NEW r \in Request, NEW t \in Task,
         NEW tr \in Trigger, create_task(r, t, tr), NEW u \in Task
  PROVE  TaskInv(u)'
<1>1. /\ req[r].pc = "idle" /\ trigger[t] = NULL /\ trigger' = [trigger EXCEPT ![t] = tr]
      /\ Defer(r, "create", t, "register", compute_next_run_at(tr, now))
      /\ UNCHANGED <<now, row, sched, history, job>>
  BY DEF create_task, Accepts
<1>2. /\ \A s \in Request \ {r} : req'[s] = req[s]
      /\ req'[r].pc = IF CommitFirst THEN "commit" ELSE "background"
      /\ req'[r].op = "create" /\ req'[r].task = t /\ req'[r].bg = "register"
  BY <1>1, Deferred DEF Op
<1>3. /\ RequestInv(r)' => AgreeInv(t)'
      /\ \A v \in Task \ {t} : RequestsKept(v)
  BY <1>1, <1>2, Accepted
<1>4. sched[t] = NULL /\ row[t].status = "absent" /\ history[t] = <<>>
  BY <1>1 DEF TypeInv, InFlight, TriggersKnown, Exists, KnownInv, HistoryKnown
<1>5. \A j \in Job : ~(job[j].pc # "idle" /\ job[j].task = t)
  BY <1>1 DEF TypeInv, InFlight, JobsInFlight
<1>6. CASE u = t
  <2>1. RegisterPending(r)'
    BY <1>2, OrderAssumption DEF RegisterPending
  <2>2. RequestInv(r)'
    BY <1>1, <1>2, <1>4, <2>1 DEF RequestInv, StartedInv, StoppedInv, RunInv
  <2>3. FireTimeInv(t)'
    BY <1>1, <1>4 DEF FireTimeInv
  <2>4. Attempts(t)' = {}
    BY <1>1, <1>4 DEF Attempts
  <2>5. OnceInv(t)'
    BY <1>1, <1>5, <2>4 DEF OnceInv, Fired, Underway
  <2>6. QED
    BY <1>3, <1>6, <2>2, <2>3, <2>5 DEF TaskInv
<1>7. CASE u # t
  <2>1. trigger'[u] = trigger[u] /\ RequestsKept(u) /\ JobsKept(u) /\ now' >= now /\ TaskInv(u)
    BY <1>1, <1>3, <1>7 DEF TypeInv, TypeOK, JobsKept, StoreInv
  <2>2. QED
    BY <1>1, <2>1, Untouched
<1>8. QED
  BY <1>6, <1>7

(* The other handlers write nothing yet. *)
LEMMA HandlerKeepsTasks ==
  ASSUME TypeInv, TypeInv', KnownInv, StoreInv, NoOverlap', NEW r \in Request, NEW t \in Task,
         activate_task(r, t) \/ deactivate_task(r, t) \/ delete_task(r, t) \/ run_task(r, t),
         NEW u \in Task
  PROVE  TaskInv(u)'
<1>1. /\ req[r].pc = "idle" /\ UNCHANGED <<now, trigger, row, sched, history, job>>
      /\ now' >= now /\ JobsKept(u)
  BY DEF activate_task, deactivate_task, delete_task, run_task, Accepts, TypeInv, TypeOK, JobsKept
<1>2. /\ \A s \in Request \ {r} : req'[s] = req[s]
      /\ req'[r].task = t
  BY DEF activate_task, deactivate_task, delete_task, run_task, Defer, TypeInv, TypeOK
<1>3. /\ Agree(t) /\ TaskInv(t)
      /\ RequestInv(r)' => AgreeInv(t)'
      /\ \A v \in Task \ {t} : RequestsKept(v)
      /\ \A s \in Request \ {r} : req[s].task # t
  BY <1>1, <1>2, Accepted
<1>4. CASE u # t
  <2>1. TaskInv(u) /\ RequestsKept(u)
    BY <1>3, <1>4 DEF StoreInv
  <2>2. QED
    BY <1>1, <2>1, Untouched
<1>5. ASSUME RequestInv(r)', OneShot(t) /\ RegisterPending(r)' => ~Fired(t)
      PROVE  TaskInv(t)'
  <2>1. AgreeInv(t)'
    BY <1>3, <1>5
  <2>2. FireTimeInv(t)'
    BY <1>1, <1>3, FireTimeKept DEF TaskInv
  <2>3. Attempts(t)' = Attempts(t) /\ (Fired(t)' <=> Fired(t)) /\ (OneShot(t)' <=> OneShot(t))
    BY <1>1 DEF Attempts, Fired, OneShot
  <2>4. \A j \in Job : Underway(j, t)' <=> Underway(j, t)
    BY <1>1 DEF Underway
  <2>5. \A s \in Request : req'[s].task = t => s = r
    BY <1>2, <1>3
  <2>6. OnceInv(t)'
    BY <1>1, <1>3, <1>5, <2>3, <2>4, <2>5 DEF TaskInv, OnceInv
  <2>7. QED
    BY <2>1, <2>2, <2>6 DEF TaskInv
<1>6. ASSUME activate_task(r, t)
      PROVE  TaskInv(t)'
  <2>1. /\ req'[r].pc = IF CommitFirst THEN "commit" ELSE "background"
        /\ req'[r].op = "activate" /\ req'[r].bg = "register"
    BY <1>6, Deferred DEF activate_task, Op
  <2>2. row[t].status = "inactive" /\ CanActivate(t)
    BY <1>6 DEF activate_task
  <2>3. sched[t] = NULL
    BY <1>3, <2>2 DEF Agree, IsActive
  <2>4. RegisterPending(r)'
    BY <2>1, OrderAssumption DEF RegisterPending
  <2>5. RequestInv(r)'
    BY <1>1, <1>2, <2>1, <2>2, <2>3, <2>4 DEF RequestInv, StartedInv, StoppedInv, RunInv
  <2>6. ASSUME OneShot(t)
        PROVE  ~Fired(t)
    <3>1. trigger[t] # NULL /\ trigger[t].type = "once" /\ trigger[t].n \in Nat /\ now \in Nat
      BY <2>6, TriggerKinds DEF OneShot, IsOnce, TypeInv, TypeOK
    <3>2. compute_next_run_at(trigger[t], now) = trigger[t].n
      BY <3>1 DEF compute_next_run_at
    <3>3. trigger[t].n > now
      BY <2>2, <2>6, <3>2 DEF CanActivate
    <3>4. Fired(t) => trigger[t].n <= now
      BY <1>3, <2>6 DEF TaskInv, OnceInv
    <3>5. QED
      BY <3>1, <3>3, <3>4
  <2>7. QED
    BY <1>5, <2>5, <2>6
<1>7. ASSUME deactivate_task(r, t) \/ delete_task(r, t)
      PROVE  TaskInv(t)'
  <2>1. /\ req'[r].op \in {"deactivate", "delete"} /\ Exists(t)
        /\ \/ req'[r].bg = "unregister" /\ req'[r].pc = IF CommitFirst THEN "commit" ELSE "background"
           \/ req'[r].bg = "none" /\ req'[r].pc = "commit" /\ ~IsActive(t)
    BY <1>7, Deferred DEF deactivate_task, delete_task, Op, Exists, IsActive
  <2>2. ~IsActive(t) => sched[t] = NULL
    BY <1>3 DEF Agree
  <2>3. ~RegisterPending(r)'
    BY <2>1 DEF RegisterPending
  <2>4. StoppedInv(r)'
    BY <1>1, <1>2, <2>1, <2>2 DEF StoppedInv, Exists, IsActive
  <2>5. RequestInv(r)'
    BY <2>1, <2>4 DEF RequestInv, StartedInv, RunInv
  <2>6. QED
    BY <1>5, <2>3, <2>5
<1>8. ASSUME run_task(r, t)
      PROVE  TaskInv(t)'
  <2>1. req'[r].op = "run" /\ req'[r].pc = "load"
    BY <1>8 DEF run_task, TypeInv, TypeOK
  <2>2. Agree(t)'
    BY <1>1, <1>3 DEF Agree, IsActive, Ahead, OneShot
  <2>3. RequestInv(r)' /\ ~RegisterPending(r)'
    BY <1>2, <2>1, <2>2 DEF RequestInv, StartedInv, StoppedInv, RunInv, RegisterPending
  <2>4. QED
    BY <1>5, <2>3
<1>9. QED
  BY <1>4, <1>6, <1>7, <1>8

-----------------------------------------------------------------------------
(* Jobs. *)

(* APScheduler dispatches a schedule: it keeps one for the next fire time,  *)
(* and the one dispatch of a once task is its last.                         *)
LEMMA DispatchKeepsTasks ==
  ASSUME TypeInv, TypeInv', KnownInv, StoreInv, NEW j \in Job, NEW t \in Task, Dispatch(j, t),
         NEW u \in Task
  PROVE  TaskInv(u)'
<1>1. /\ job[j].pc = "idle" /\ sched[t] # NULL /\ UNCHANGED <<now, trigger, row, history, req>>
      /\ job' = [job EXCEPT ![j] = [pc |-> "queued", task |-> t]]
      /\ \A v \in Task \ {t} : sched'[v] = sched[v]
      /\ now' >= now /\ TaskInv(t) /\ TaskInv(u)
  BY DEF Dispatch, TypeInv, TypeOK, StoreInv
<1>2. /\ job'[j] = [pc |-> "queued", task |-> t]
      /\ \A k \in Job \ {j} : job'[k] = job[k]
      /\ job[j].task = NULL
  BY <1>1 DEF TypeInv, TypeOK, StoreInv, SlotInv, IdleJob
<1>3. RequestsKept(u)
  BY <1>1 DEF RequestsKept
<1>4. CASE u # t
  <2>1. JobsKept(u)
    BY <1>2, <1>4, NullIsNoTask DEF JobsKept
  <2>2. QED
    BY <1>1, <1>3, <1>4, <2>1, Untouched
<1>5. CASE u = t
  <2>1. /\ FireTimeInv(t)' /\ Satisfiable(trigger[t])
        /\ OneShot(t) => sched[t] = trigger[t].n /\ sched'[t] = NULL /\ trigger[t].n <= now
        /\ ~OneShot(t) => sched'[t] # NULL
    BY <1>1, DispatchFireTime DEF TaskInv
  <2>2. AgreeInv(t)'
    <3>1. Ahead(t)' => sched'[t] # NULL
      <4>1. OneShot(t) => trigger[t].n \in Nat
        BY TriggerKinds DEF OneShot
      <4>2. Ahead(t)' => (OneShot(t) => trigger[t].n > now)
        BY <1>1 DEF Ahead, OneShot
      <4>3. QED
        BY <2>1, <4>1, <4>2 DEF TypeInv, TypeOK
    <3>2. QED
      BY <1>1, <1>3, <1>5, <3>1, AgreeKept DEF TaskInv
  <2>3. OnceInv(t)'
    <3> SUFFICES ASSUME OneShot(t)'
                 PROVE  OnceInv(t)'
      BY DEF OnceInv
    <3>1. OneShot(t)
      BY <1>1 DEF OneShot
    <3>2. ~Fired(t)
      BY <1>1, <3>1 DEF TaskInv, OnceInv
    <3>3. Attempts(t)' = {} /\ \A k \in Job : ~Underway(k, t)
      BY <1>1, <3>2 DEF Fired, Attempts, Underway
    <3>4. \A k \in Job : Underway(k, t)' => k = j
      BY <1>2, <3>3 DEF Underway
    <3>5. \A r \in Request : req'[r].task = t => ~RegisterPending(r)'
      <4>1. ASSUME NEW r \in Request, req[r].task = t, RegisterPending(r)
            PROVE  FALSE
        <5>1. req[r].bg = "register" /\ req[r].pc \in {"background", "commit"}
          BY <4>1 DEF RegisterPending
        <5>2. RequestInv(r) /\ req[r].op \in {"create", "activate"}
          BY <5>1, Handlers
        <5>3. QED
          BY <1>1, <4>1, <5>2 DEF RequestInv, StartedInv
      <4>2. QED
        BY <1>1, <4>1 DEF RegisterPending
    <3>6. QED
      BY <1>1, <2>1, <3>1, <3>3, <3>4, <3>5 DEF OnceInv
  <2>4. QED
    BY <1>5, <2>1, <2>2, <2>3 DEF TaskInv
<1>6. QED
  BY <1>4, <1>5

(* A once task that is deactivated by its own job had no schedule left, and *)
(* no request was about to give it one.                                     *)
LEMMA FiredAgrees ==
  ASSUME TypeInv, TypeInv', KnownInv, StoreInv, NEW t \in Task, OneShot(t), Fired(t), Exists(t),
         UNCHANGED <<now, trigger, sched, req>>, row'[t] = InactiveRow
  PROVE  AgreeInv(t)'
<1>1. TaskInv(t)
  BY DEF StoreInv
<1>2. /\ trigger[t].n <= now /\ sched[t] = NULL
      /\ \A r \in Request : req[r].task = t => ~RegisterPending(r)
  BY <1>1 DEF TaskInv, OnceInv
<1>3. ~Ahead(t)'
  <2>1. trigger[t].n \in Nat
    BY TriggerKinds DEF OneShot
  <2>2. QED
    BY <1>2, <2>1 DEF Ahead, OneShot, TypeInv, TypeOK
<1>4. Agree(t)'
  BY <1>2, <1>3 DEF Agree
<1>5. ASSUME NEW r \in Request, req[r].task = t
      PROVE  RequestInv(r)'
  <2>1. RequestInv(r) /\ ~RegisterPending(r) /\ ~RegisterPending(r)'
    BY <1>1, <1>2, <1>5 DEF TaskInv, AgreeInv, RegisterPending
  <2>2. row'[t].status = "inactive"
    BY DEF InactiveRow
  <2>3. StartedInv(r)'
    <3> SUFFICES ASSUME req[r].op \in {"create", "activate"}
                 PROVE  StartedInv(r)'
      BY DEF StartedInv
    <3>1. /\ req[r].bg = "register" /\ req[r].pc \in {"background", "commit"}
          /\ row[t].status = IF CommitFirst /\ req[r].pc = "background" THEN "active"
                             ELSE IF req[r].op = "create" THEN "absent" ELSE "inactive"
      BY <1>5, <2>1 DEF RequestInv, StartedInv
    <3>2. req[r].pc = "commit" /\ req[r].op # "create"
      BY <2>1, <3>1 DEF RegisterPending, Exists
    <3>3. QED
      BY <1>3, <1>5, <2>1, <2>2, <3>1, <3>2 DEF StartedInv
  <2>4. StoppedInv(r)'
    BY <1>2, <1>5, <2>1, <2>2 DEF RequestInv, StoppedInv, IsActive, Exists
  <2>5. RunInv(r)'
    BY <1>4, <1>5 DEF RunInv
  <2>6. QED
    BY <2>3, <2>4, <2>5 DEF RequestInv
<1>6. Quiet(t)' => Agree(t)'
  BY <1>4
<1>7. QED
  BY <1>5, <1>6 DEF AgreeInv

(* The end of a scheduled webhook call: the only one of a once task. *)
LEMMA RecordOnce ==
  ASSUME TypeInv, TypeInv', KnownInv, StoreInv, NEW j \in Job, NEW t \in Task, job[j].task = t,
         job[j].pc = "firing", NEW e \in {"scheduled_ok", "scheduled_failed"}, Append1(t, e),
         UNCHANGED <<now, trigger, sched, req>>, JobProgress(j), job'[j].pc \in {"idle", "remove"}
  PROVE  OnceInv(t)'
<1> SUFFICES ASSUME OneShot(t)'
             PROVE  OnceInv(t)'
  BY DEF OnceInv
<1>1. OneShot(t) /\ OnceInv(t)
  BY DEF OneShot, StoreInv, TaskInv
<1>2. Fired(t) /\ Underway(j, t)
  BY DEF Fired, Underway
<1>3. Attempts(t) = {} /\ \A k \in Job : Underway(k, t) => k = j
  BY <1>1, <1>2 DEF OnceInv
<1>4. Attempts(t)' = {Len(history[t]) + 1}
  BY <1>3, AttemptsAfter DEF Event
<1>5. \A k \in Job : ~Underway(k, t)'
  BY <1>3 DEF Underway, JobProgress
<1>6. /\ trigger[t].n <= now /\ sched[t] = NULL
      /\ \A r \in Request : req[r].task = t => ~RegisterPending(r)
  BY <1>1, <1>2 DEF OnceInv
<1>7. \A r \in Request : req'[r].task = t => ~RegisterPending(r)'
  BY <1>6 DEF RegisterPending
<1>8. QED
  BY <1>4, <1>5, <1>6, <1>7 DEF OnceInv

(* The steps of a job keep the invariant of every task. *)
LEMMA JobKeepsTasks ==
  ASSUME TypeInv, TypeInv', KnownInv, StoreInv, Faults = {}, NEW j \in Job, JobStep(j), NEW u \in Task
  PROVE  TaskInv(u)'
<1>1. UNCHANGED <<now, trigger, req>> /\ job[j].pc # "idle" /\ now' >= now /\ TaskInv(u)
  BY DEF JobStep, LoadTask, RecordFailure, RecordSuccess, JobRollback, RemoveFiredSchedule, TypeInv,
         TypeOK, StoreInv
<1>2. PICK t \in Task : job[j].task = t
  BY <1>1 DEF TypeInv, InFlight, JobsInFlight
<1>3. JobProgress(j)
  BY JobStepProgress DEF TypeInv
<1>4. RequestsKept(u)
  BY <1>1 DEF RequestsKept
<1>5. CASE u # t
  <2>1. JobsKept(u)
    BY <1>2, <1>3, <1>5, NullIsNoTask DEF JobsKept, JobProgress, IdleJob
  <2>2. sched'[u] = sched[u]
    BY <1>2, <1>5 DEF JobStep, LoadTask, RecordFailure, RecordSuccess, JobRollback,
                      RemoveFiredSchedule, TypeInv, TypeOK
  <2>3. row'[u] = row[u]
    BY <1>2, <1>5 DEF JobStep, LoadTask, RecordFailure, RecordSuccess, JobRollback,
                      RemoveFiredSchedule, TypeInv, TypeOK
  <2>4. history'[u] = history[u]
    BY <1>2, <1>5 DEF JobStep, LoadTask, RecordFailure, RecordSuccess, JobRollback,
                      RemoveFiredSchedule, Append1, TypeInv, TypeOK
  <2>5. QED
    BY <1>1, <1>4, <2>1, <2>2, <2>3, <2>4, Untouched
<1>6. ASSUME u = t, UNCHANGED history, row'[t] = row[t], sched'[t] = sched[t],
             job'[j].pc \in {"idle", "firing"}, job'[j].pc = "firing" => job[j].pc = "queued"
      PROVE  TaskInv(t)'
  <2>1. AgreeInv(t)' /\ FireTimeInv(t)'
    BY <1>1, <1>4, <1>6, AgreeKept, FireTimeKept DEF TaskInv
  <2>2. Attempts(t)' = Attempts(t)
    BY <1>6 DEF Attempts
  <2>3. \A k \in Job :
          /\ Underway(k, t)' => Underway(k, t)
          /\ job'[k].pc # "idle" /\ job'[k].task = t => job[k].pc # "idle" /\ job[k].task = t
    BY <1>1, <1>2, <1>3, <1>6 DEF JobProgress, Underway
  <2>4. \A r \in Request : req'[r].task = t /\ RegisterPending(r)' => req[r].task = t /\ RegisterPending(r)
    BY <1>1 DEF RegisterPending
  <2>5. TypeOK /\ TypeOK' /\ OnceInv(t) /\ trigger'[t] = trigger[t]
    BY <1>1, <1>6 DEF TypeInv, TaskInv
  <2>6. OnceInv(t)'
    BY <1>1, <1>6, <2>2, <2>3, <2>4, <2>5, OnceKept
  <2>7. QED
    BY <2>1, <2>6 DEF TaskInv
<1>7. CASE u = t /\ (LoadTask(j) \/ JobRollback(j))
  <2>1. /\ UNCHANGED <<history, row, sched>> /\ job'[j].pc \in {"idle", "firing"}
        /\ job'[j].pc = "firing" => job[j].pc = "queued"
    BY <1>7 DEF LoadTask, JobRollback, TypeInv, TypeOK, JobState, IdleJob
  <2>2. QED
    BY <1>6, <1>7, <2>1
<1>8. CASE u = t /\ RemoveFiredSchedule(j)
  <2>1. /\ UNCHANGED <<history, row>> /\ job[j].pc = "remove" /\ job'[j].pc = "idle"
        /\ sched' = [sched EXCEPT ![t] = NULL]
    BY <1>2, <1>8 DEF RemoveFiredSchedule, TypeInv, TypeOK, IdleJob
  <2>2. OneShot(t) /\ Fired(t)
    BY <1>1, <1>2, <2>1 DEF StoreInv, SlotInv, Fired
  <2>3. sched[t] = NULL /\ sched'[t] = NULL
    BY <1>1, <1>8, <2>1, <2>2 DEF TaskInv, OnceInv, TypeInv, TypeOK
  <2>4. QED
    BY <1>6, <1>8, <2>1, <2>3
<1>9. CASE u = t /\ (RecordFailure(j) \/ RecordSuccess(j))
  <2>1. /\ job[j].pc = "firing" /\ sched' = sched
        /\ \E e \in {"scheduled_ok", "scheduled_failed"} : Append1(t, e)
    BY <1>2, <1>9 DEF RecordFailure, RecordSuccess
  <2>2. job'[j].pc \in {"idle", "remove"}
    BY <1>9 DEF RecordFailure, RecordSuccess, TypeInv, TypeOK, JobState, IdleJob
  <2>3. OnceInv(t)'
    BY <1>1, <1>2, <1>3, <2>1, <2>2, RecordOnce
  <2>4. FireTimeInv(t)'
    BY <1>1, <1>9, <2>1, FireTimeKept DEF TaskInv
  <2>5. CASE row' = row
    <3>1. AgreeInv(t)'
      BY <1>1, <1>4, <1>9, <2>1, <2>5, AgreeKept DEF TaskInv
    <3>2. QED
      BY <1>9, <2>3, <2>4, <3>1 DEF TaskInv
  <2>6. CASE row' # row
    <3>1. OneShot(t) /\ Exists(t) /\ row'[t] = InactiveRow
      BY <1>2, <1>9, <2>6 DEF RecordFailure, RecordSuccess, TypeInv, TypeOK
    <3>2. Fired(t)
      BY <1>1, <1>2 DEF Fired
    <3>3. AgreeInv(t)'
      BY <1>1, <2>1, <3>1, <3>2, FiredAgrees
    <3>4. QED
      BY <1>9, <2>3, <2>4, <3>3 DEF TaskInv
  <2>7. QED
    BY <2>5, <2>6
<1>10. QED
  BY <1>5, <1>7, <1>8, <1>9 DEF JobStep

-----------------------------------------------------------------------------
(* The invariant holds in every state. *)

(* Slots are cleared when a request or a job ends. *)
LEMMA SlotsKept ==
  ASSUME TypeInv, KnownInv, StoreInv, [Next]_vars
  PROVE  SlotInv'
<1>0. TypeInv'
  BY TypeInvStep
<1>1. ASSUME UNCHANGED job
      PROVE  \A j \in Job : /\ job'[j].pc = "idle" => job'[j] = IdleJob
                            /\ job'[j].pc = "remove" => OneShot(job[j].task)'
  <2>1. \A t \in Task : OneShot(t) => OneShot(t)'
    BY TriggerStable DEF OneShot
  <2>2. QED
    BY <1>1, <2>1 DEF StoreInv, SlotInv, TypeInv, InFlight, JobsInFlight
<1>2. ASSUME UNCHANGED req
      PROVE  \A r \in Request : req'[r].pc = "idle" => req'[r] = IdleRequest
  BY <1>2 DEF StoreInv, SlotInv
<1>3. ASSUME NEW r \in Request, NEW t \in Task, NEW tr \in Trigger, create_task(r, t, tr)
      PROVE  SlotInv'
  <2>1. \A s \in Request : req'[s].pc = "idle" => req'[s] = IdleRequest
    BY <1>3 DEF create_task, Defer, TypeInv, TypeOK, StoreInv, SlotInv
  <2>2. QED
    BY <1>1, <1>3, <2>1 DEF create_task, SlotInv
<1>4. ASSUME NEW r \in Request, NEW t \in Task,
             activate_task(r, t) \/ deactivate_task(r, t) \/ delete_task(r, t) \/ run_task(r, t)
      PROVE  SlotInv'
  <2>1. \A s \in Request : req'[s].pc = "idle" => req'[s] = IdleRequest
    <3>1. req'[r].pc # "idle" /\ \A s \in Request \ {r} : req'[s] = req[s]
      <4>1. CASE run_task(r, t)
        BY <4>1 DEF run_task, TypeInv, TypeOK
      <4>2. CASE activate_task(r, t) \/ deactivate_task(r, t) \/ delete_task(r, t)
        <5>1. PICK op \in Op, bg \in {"none", "register", "unregister"} :
                \E next \in {NULL, compute_next_run_at(trigger[t], now)} : Defer(r, op, t, bg, next)
          BY <4>2 DEF activate_task, deactivate_task, delete_task, Op
        <5>2. QED
          BY <5>1, Deferred
      <4>3. QED
        BY <1>4, <4>1, <4>2
    <3>2. QED
      BY <3>1 DEF TypeInv, TypeOK, StoreInv, SlotInv
  <2>2. QED
    BY <1>1, <1>4, <2>1 DEF activate_task, deactivate_task, delete_task, run_task, SlotInv
<1>5. ASSUME NEW r \in Request, RequestStep(r)
      PROVE  SlotInv'
  <2>1. req'[r].pc = "idle" => req'[r] = IdleRequest
    BY <1>5 DEF RequestStep, register_schedule, unregister_schedule, BackgroundFails, Commit,
                Rollback, run_task_manually, RecordManualRun, BackgroundDone, CommitDone, TypeInv,
                TypeOK, RequestState
  <2>2. \A s \in Request \ {r} : req'[s] = req[s]
    BY <1>5, RequestStepProgress DEF Progress, TypeInv
  <2>3. UNCHANGED job
    BY <1>5 DEF RequestStep, register_schedule, unregister_schedule, BackgroundFails, Commit,
                Rollback, run_task_manually, RecordManualRun
  <2>4. QED
    BY <1>1, <2>1, <2>2, <2>3 DEF StoreInv, SlotInv
<1>6. ASSUME NEW j \in Job, NEW t \in Task, Dispatch(j, t)
      PROVE  SlotInv'
  <2>1. UNCHANGED <<req, trigger>>
    BY <1>6 DEF Dispatch
  <2>2. \A k \in Job : job'[k] = IF k = j THEN [pc |-> "queued", task |-> t] ELSE job[k]
    BY <1>6 DEF Dispatch, TypeInv, TypeOK
  <2>3. QED
    BY <1>2, <2>1, <2>2 DEF StoreInv, SlotInv, OneShot
<1>7. ASSUME NEW j \in Job, JobStep(j)
      PROVE  SlotInv'
  <2>1. UNCHANGED <<req, trigger>>
    BY <1>7 DEF JobStep, LoadTask, RecordFailure, RecordSuccess, JobRollback, RemoveFiredSchedule
  <2>2. job'[j].pc = "idle" => job'[j] = IdleJob
    BY <1>7 DEF JobStep, LoadTask, RecordFailure, RecordSuccess, JobRollback, RemoveFiredSchedule,
                TypeInv, TypeOK, JobState
  <2>3. job'[j].pc = "remove" => OneShot(job[j].task)'
    <3> SUFFICES ASSUME job'[j].pc = "remove"
                 PROVE  OneShot(job[j].task)'
      OBVIOUS
    <3>1. JobProgress(j) /\ RecordSuccess(j)
      BY <1>7, JobStepProgress DEF TypeInv
    <3>2. job'[j].task = job[j].task /\ job'[j] # IdleJob
      BY <3>1 DEF JobProgress, IdleJob
    <3>3. OneShot(job[j].task)
      BY <3>1, <3>2 DEF RecordSuccess, TypeInv, TypeOK
    <3>4. QED
      BY <2>1, <3>2, <3>3 DEF OneShot
  <2>4. \A k \in Job \ {j} : job'[k] = job[k]
    BY <1>7, JobStepProgress DEF JobProgress, TypeInv
  <2>5. QED
    BY <1>2, <2>1, <2>2, <2>3, <2>4 DEF StoreInv, SlotInv, OneShot
<1>8. CASE Crash
  BY <1>8 DEF Crash, StoreInv, SlotInv, OneShot, IdleRequest, IdleJob
<1>9. CASE Tick \/ UNCHANGED vars
  BY <1>1, <1>2, <1>9 DEF Tick, vars, SlotInv
<1>10. QED
  BY <1>3, <1>4, <1>5, <1>6, <1>7, <1>8, <1>9, NextCases

(* A step between states without overlapping requests keeps the invariant. *)
LEMMA StoreInvStep ==
  ASSUME Faults = {}, TypeInv, KnownInv, StoreInv, NoOverlap, NoOverlap', [Next]_vars
  PROVE  StoreInv'
<1>1. TypeInv' /\ SlotInv'
  BY TypeInvStep, SlotsKept
<1>2. ASSUME NEW u \in Task
      PROVE  TaskInv(u)'
  <2>1. CASE Tick \/ UNCHANGED vars
    <3>1. UNCHANGED <<trigger, row, sched, history, req, job>> /\ now' >= now
      BY <2>1 DEF Tick, vars, TypeInv, TypeOK
    <3>2. TaskInv(u) /\ RequestsKept(u) /\ JobsKept(u)
      BY <3>1 DEF StoreInv, RequestsKept, JobsKept
    <3>3. QED
      BY <1>1, <3>1, <3>2, Untouched
  <2>2. ~Crash
    BY DEF Crash
  <2>3. QED
    BY <1>1, <2>1, <2>2, NextCases, CreateKeepsTasks, HandlerKeepsTasks, RequestKeepsTasks,
       DispatchKeepsTasks, JobKeepsTasks
<1>3. QED
  BY <1>1, <1>2 DEF StoreInv

(* At first there is no row, no schedule, no request and no job. *)
LEMMA StoreInvInit == Init => StoreInv
<1> SUFFICES ASSUME Init
             PROVE  StoreInv
  OBVIOUS
<1>1. SlotInv
  BY DEF Init, SlotInv, IdleJob
<1>2. ASSUME NEW t \in Task
      PROVE  TaskInv(t)
  <2>1. /\ sched[t] = NULL /\ row[t].status = "absent" /\ trigger[t] = NULL
        /\ \A r \in Request : req[r].task = NULL
    BY DEF Init, Absent, IdleRequest
  <2>2. AgreeInv(t)
    BY <2>1, NullIsNoTask DEF AgreeInv, Agree, IsActive
  <2>3. FireTimeInv(t) /\ OnceInv(t)
    BY <2>1 DEF FireTimeInv, OnceInv, OneShot
  <2>4. QED
    BY <2>2, <2>3 DEF TaskInv
<1>3. QED
  BY <1>1, <1>2 DEF StoreInv

(* The invariant, as long as requests on one task do not overlap. *)
LEMMA StoreInvHolds ==
  ASSUME Faults = {}
  PROVE  Spec /\ []NoOverlap => [](TypeInv /\ StoreInv)
<1>1. TypeInv /\ KnownInv /\ AuditInv /\ StoreInv /\ NoOverlap /\ NoOverlap' /\ [Next]_vars => StoreInv'
  BY StoreInvStep
<1>2. QED
  BY <1>1, StoreInvInit, AuditInductive, PTL DEF Spec

-----------------------------------------------------------------------------
(* Theorems. *)

(* A schedule belongs to an active row whenever no request on its task is   *)
(* in flight: deactivate_task, delete_task and the executor's own removal   *)
(* of a once schedule leave none behind.                                    *)
THEOREM SchedulesOwned ==
  ASSUME Faults = {}
  PROVE  Spec /\ []NoOverlap => []NoOrphanSchedule
<1>1. StoreInv => NoOrphanSchedule
  BY DEF StoreInv, TaskInv, AgreeInv, Agree, NoOrphanSchedule
<1>2. QED
  BY <1>1, StoreInvHolds, PTL

(* An active task with a fire time ahead has a schedule whenever no request *)
(* on it is in flight: no order of background task, commit and dispatch     *)
(* loses the schedule that create_task or activate_task adds.               *)
THEOREM ActiveScheduled ==
  ASSUME Faults = {}
  PROVE  Spec /\ []NoOverlap => []ActiveIsScheduled
<1>1. StoreInv => ActiveIsScheduled
  BY DEF StoreInv, TaskInv, AgreeInv, Agree, Ahead, ActiveIsScheduled
<1>2. QED
  BY <1>1, StoreInvHolds, PTL

(* The scheduled webhook of a once task is attempted at most once: by the   *)
(* expiry check of activate_task nothing schedules it again.                *)
THEOREM OnceAttempted ==
  ASSUME Faults = {}
  PROVE  Spec /\ []NoOverlap => []OnceAttemptedOnce
<1>1. StoreInv => OnceAttemptedOnce
  <2> SUFFICES ASSUME StoreInv, NEW t \in Task, OneShot(t)
               PROVE  Cardinality(Attempts(t)) <= 1
    BY DEF OnceAttemptedOnce
  <2>1. \A i, k \in Attempts(t) : i = k
    BY DEF StoreInv, TaskInv, OnceInv
  <2>2. CASE Attempts(t) = {}
    BY <2>2, FS_EmptySet
  <2>3. CASE Attempts(t) # {}
    <3>1. PICK i \in Attempts(t) : TRUE
      BY <2>3
    <3>2. Attempts(t) = {i}
      BY <2>1, <3>1
    <3>3. QED
      BY <3>2, FS_Singleton
  <2>4. QED
    BY <2>2, <2>3
<1>2. QED
  BY <1>1, StoreInvHolds, PTL

-----------------------------------------------------------------------------
(* The preview. *)

(* A cron expression matches once in each period. *)
LEMMA OneMatchPerPeriod ==
  ASSUME NEW n \in Nat, n > 0, NEW x \in Nat, NEW i \in Nat, NEW k \in Nat,
         x < i * n, i * n <= x + n, x < k * n, k * n <= x + n
  PROVE  i = k
<1>1. ASSUME NEW a \in Nat, NEW b \in Nat, a < b
      PROVE  a * n + n <= b * n
  <2>1. b * n = a * n + (b - a) * n
    BY <1>1
  <2>2. (b - a) * n >= n
    BY <1>1
  <2>3. a * n \in Nat /\ (b - a) * n \in Nat
    BY <1>1
  <2>4. QED
    BY <2>1, <2>2, <2>3
<1>2. i * n \in Nat /\ k * n \in Nat
  OBVIOUS
<1>3. ~(i < k) /\ ~(k < i)
  BY <1>1, <1>2
<1>4. QED
  BY <1>3

(* FirstAfter is the least of the times that lie ahead. *)
LEMMA FirstAfterIsLeast ==
  ASSUME NEW s, NEW x \in Nat, \E i \in DOMAIN s : s[i] = x /\ s[i] > now,
         \A i \in DOMAIN s : s[i] \in Nat /\ (s[i] > now => x <= s[i])
  PROVE  FirstAfter(s) = x
<1> DEFINE later == {s[i] : i \in {k \in DOMAIN s : s[k] > now}}
<1>1. x \in later /\ \A y \in later : y \in Nat /\ x <= y
  OBVIOUS
<1>2. FirstAfter(s) = CHOOSE z \in later : \A y \in later : z <= y
  BY <1>1 DEF FirstAfter
<1> HIDE DEF later
<1>3. \A z \in later : (\A y \in later : z <= y) => z = x
  BY <1>1
<1>4. QED
  BY <1>1, <1>2, <1>3

(* Nothing ahead, nothing shown. *)
LEMMA NoneAfter ==
  ASSUME NEW s, \A i \in DOMAIN s : ~(s[i] > now)
  PROVE  FirstAfter(s) = NULL
BY DEF FirstAfter

(* The preview of a cron expression starts with its match of this instant,  *)
(* if there is one, and the next.                                           *)
LEMMA CronPreview ==
  ASSUME NEW n \in Nat, n > 0, now \in Nat, NEW f \in Nat, f > now, f <= now + n,
         \E k \in Nat : f = k * n
  PROVE  FirstAfter([i \in 1 .. 2 |-> FirstMatch(n, now) + (i - 1) * n]) = f
<1> DEFINE m == FirstMatch(n, now)
           s == [i \in 1 .. 2 |-> m + (i - 1) * n]
<1>1. m \in Nat /\ now <= m /\ m < now + n
  BY FirstMatchMultiple
<1>2. PICK k \in Nat : m = k * n
  BY FirstMatchMultiple
<1>3. PICK l \in Nat : f = l * n
  OBVIOUS
<1> HIDE DEF m
<1>4. DOMAIN s = {1, 2} /\ s[1] = m /\ s[2] = m + n
  <2>1. 1 .. 2 = {1, 2}
    OBVIOUS
  <2>2. s[1] = m + (1 - 1) * n /\ s[2] = m + (2 - 1) * n
    OBVIOUS
  <2>3. (1 - 1) * n = 0 /\ (2 - 1) * n = n
    OBVIOUS
  <2>4. QED
    BY <1>1, <2>1, <2>2, <2>3
<1> HIDE DEF s
<1>5. CASE m > now
  <2>1. now < k * n /\ k * n <= now + n /\ now < l * n /\ l * n <= now + n
    BY <1>1, <1>2, <1>3, <1>5
  <2>2. l = k
    BY <2>1, OneMatchPerPeriod
  <2>3. f = m
    BY <1>2, <1>3, <2>2
  <2>4. FirstAfter(s) = f
    BY <1>1, <1>4, <1>5, <2>3, FirstAfterIsLeast
  <2>5. QED
    BY <2>4 DEF s, m
<1>6. CASE m = now
  <2>1. (k + 1) * n = m + n /\ k + 1 \in Nat
    BY <1>2
  <2>2. now < (k + 1) * n /\ (k + 1) * n <= now + n /\ now < l * n /\ l * n <= now + n
    BY <1>1, <1>3, <1>6, <2>1
  <2>3. l = k + 1
    BY <2>1, <2>2, OneMatchPerPeriod
  <2>4. f = m + n
    BY <1>3, <2>1, <2>3
  <2>5. FirstAfter(s) = f
    BY <1>1, <1>4, <1>6, <2>4, FirstAfterIsLeast
  <2>6. QED
    BY <2>5 DEF s, m
<1>7. QED
  BY <1>1, <1>5, <1>6

(* get_task_schedule computes from the stored trigger what the schedule     *)
(* store holds: for once and cron tasks its first time ahead is the fire    *)
(* time of the schedule.                                                    *)
THEOREM PreviewRight ==
  ASSUME Faults = {}
  PROVE  Spec /\ []NoOverlap => []PreviewMatchesSchedule
<1>1. TypeInv /\ StoreInv => PreviewMatchesSchedule
  <2> SUFFICES ASSUME TypeInv, StoreInv, NEW t \in Task, Quiet(t), IsActive(t),
                      trigger[t].type # "interval", sched[t] # NULL => sched[t] > now
               PROVE  sched[t] = FirstAfter(get_task_schedule(t, now, 2))
    BY DEF PreviewMatchesSchedule
  <2>1. Agree(t) /\ FireTimeInv(t)
    BY DEF StoreInv, TaskInv, AgreeInv
  <2>2. trigger[t] # NULL
    BY DEF TypeInv, InFlight, TriggersKnown, Exists, IsActive
  <2>3. /\ trigger[t].n \in Nat /\ now \in Nat /\ sched[t] \in Nat \cup {NULL}
        /\ trigger[t].type \in {"once", "cron"} /\ (OneShot(t) <=> trigger[t].type = "once")
    BY <2>2, TriggerKinds DEF TypeInv, TypeOK, Time
  <2> DEFINE s == get_task_schedule(t, now, 2)
  <2>4. CASE trigger[t].type = "once" /\ trigger[t].n > now
    <3>1. s = <<trigger[t].n>>
      BY <2>3, <2>4 DEF get_task_schedule, compute_upcoming_run_times
    <3>2. sched[t] = trigger[t].n
      BY <2>1, <2>3, <2>4 DEF Agree, Ahead, Satisfiable, FireTimeInv
    <3>3. DOMAIN s = {1} /\ s[1] = trigger[t].n
      BY <3>1
    <3> HIDE DEF s
    <3>4. FirstAfter(s) = trigger[t].n
      BY <2>3, <2>4, <3>3, FirstAfterIsLeast
    <3>5. QED
      BY <3>2, <3>4 DEF s
  <2>5. CASE trigger[t].type = "once" /\ ~(trigger[t].n > now)
    <3>1. sched[t] = NULL
      BY <2>1, <2>3, <2>5 DEF FireTimeInv
    <3>2. s = <<>> \/ s = <<trigger[t].n>>
      BY <2>5 DEF get_task_schedule, compute_upcoming_run_times
    <3>3. \A i \in DOMAIN s : ~(s[i] > now)
      BY <2>5, <3>2
    <3> HIDE DEF s
    <3>4. FirstAfter(s) = NULL
      BY <3>3, NoneAfter
    <3>5. QED
      BY <3>1, <3>4 DEF s
  <2>6. CASE trigger[t].type = "cron" /\ trigger[t].n = 0
    <3>1. sched[t] = NULL
      BY <2>1, <2>6 DEF FireTimeInv, Satisfiable
    <3>2. s = <<>>
      BY <2>6 DEF get_task_schedule, compute_upcoming_run_times
    <3>3. \A i \in DOMAIN s : ~(s[i] > now)
      BY <3>2
    <3> HIDE DEF s
    <3>4. FirstAfter(s) = NULL
      BY <3>3, NoneAfter
    <3>5. QED
      BY <3>1, <3>4 DEF s
  <2>7. CASE trigger[t].type = "cron" /\ trigger[t].n > 0
    <3> DEFINE n == trigger[t].n
    <3>1. s = [i \in 1 .. 2 |-> FirstMatch(n, now) + (i - 1) * n]
      BY <2>3, <2>7 DEF get_task_schedule, compute_upcoming_run_times
    <3>2. sched[t] # NULL
      BY <2>1, <2>3, <2>7 DEF Agree, Ahead, Satisfiable
    <3>3. /\ sched[t] \in Nat /\ sched[t] > now /\ sched[t] <= now + n
          /\ \E k \in Nat : sched[t] = k * n
      BY <2>1, <2>3, <2>7, <3>2 DEF FireTimeInv
    <3>4. n \in Nat /\ n > 0
      BY <2>3, <2>7
    <3> HIDE DEF n, s
    <3>5. FirstAfter([i \in 1 .. 2 |-> FirstMatch(n, now) + (i - 1) * n]) = sched[t]
      BY <2>3, <3>3, <3>4, CronPreview
    <3>6. QED
      BY <3>1, <3>5 DEF s
  <2>8. QED
    BY <2>3, <2>4, <2>5, <2>6, <2>7
<1>2. QED
  BY <1>1, StoreInvHolds, PTL
=============================================================================
