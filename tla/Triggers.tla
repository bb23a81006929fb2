------------------------------ MODULE Triggers ------------------------------
(***************************************************************************)
(* The three structured trigger kinds of app/schemas/tasks.py and the fire  *)
(* times that app/scheduler/triggers.py and the APScheduler trigger classes *)
(* compute from them.  Time is a natural number of ticks.                   *)
(*                                                                          *)
(* A trigger is a record [type, n]:                                         *)
(*   once     - n is run_at                                                 *)
(*   interval - n > 0 is the period in ticks (IntervalTriggerSpec: gt=0)    *)
(*   cron     - n > 0: the expression matches the multiples of n;           *)
(*              n = 0: it matches no date at all (for example "0 0 30 2 *", *)
(*              whose fields are all in range).                               *)
(***************************************************************************)
EXTENDS Integers

CONSTANT NULL \* Python's None and SQL's NULL

ASSUME NullAssumption == NULL \notin Int

TriggerType == {"once", "cron", "interval"}

TriggerSpec ==
  {tr \in [type : TriggerType, n : Nat] : tr.type = "interval" => tr.n > 0}

IsOnce(tr) == tr.type = "once"

(* The trigger matches some instant. *)
Satisfiable(tr) == tr.type = "cron" => tr.n > 0

(* The first multiple of n that is not before x. *)
FirstMatch(n, x) == x + ((-x) % n)

(***************************************************************************)
(* build_trigger(spec).next() for a trigger object built at time now:       *)
(* DateTrigger returns run_at even when it has passed, IntervalTrigger      *)
(* starts at the moment it is built, CronTrigger finds the first match from *)
(* now on.                                                                  *)
(***************************************************************************)
compute_next_run_at(tr, now) ==
  CASE tr.type = "once"     -> tr.n
    [] tr.type = "interval" -> now
    [] tr.type = "cron"     -> IF tr.n = 0 THEN NULL ELSE FirstMatch(tr.n, now)

(***************************************************************************)
(* The fire time a schedule has after the fire time f was dispatched at     *)
(* now >= f with every missed fire time coalesced into that one dispatch:   *)
(* the first fire time later than now, or none.                             *)
(***************************************************************************)
NextFire(tr, f, now) ==
  CASE tr.type = "once"     -> NULL
    [] tr.type = "interval" -> now + tr.n - ((now - f) % tr.n)
    [] tr.type = "cron"     -> IF tr.n = 0 THEN NULL ELSE FirstMatch(tr.n, now + 1)

(* Mutant: the first time is consumed by a test whether there is one. *)
UpcomingSkipsFirst(tr, built, now, count) ==
  CASE tr.type = "once"     -> <<>>
    [] tr.type = "interval" -> [i \in 1 .. count |-> now + ((built - now) % tr.n) + i * tr.n]
    [] tr.type = "cron"     -> IF tr.n = 0 THEN <<>>
                               ELSE [i \in 1 .. count |-> FirstMatch(tr.n, now) + i * tr.n]

(***************************************************************************)
(* The first count times, from now on, of a trigger object built at         *)
(* built <= now (count > 0).  The object of an interval starts at built, so *)
(* that its own first time is dropped as soon as the clock has moved.       *)
(***************************************************************************)
compute_upcoming_run_times(tr, built, now, count) ==
  CASE tr.type = "once"     -> IF tr.n >= now THEN <<tr.n>> ELSE <<>>
    [] tr.type = "interval" -> [i \in 1 .. count |-> now + ((built - now) % tr.n) + (i - 1) * tr.n]
    [] tr.type = "cron"     -> IF tr.n = 0 THEN <<>>
                               ELSE [i \in 1 .. count |-> FirstMatch(tr.n, now) + (i - 1) * tr.n]
=============================================================================
