-------------------------- MODULE MCTaskLifecycle ---------------------------
(* Model-checking definitions for TaskLifecycle: trigger sets and symmetry. *)
EXTENDS TaskLifecycle, TLC

Once(n) == [type |-> "once", n |-> n]
Cron(n) == [type |-> "cron", n |-> n]
Interval(n) == [type |-> "interval", n |-> n]

(* A once task already due, one due later, one of each recurring kind, and  *)
(* a cron expression that never matches.                                    *)
AllTriggers == {Once(0), Once(2), Interval(2), Cron(2), Cron(0)}
OnceTriggers == {Once(0), Once(2)}
FutureOnce == {Once(2)}
CronOnly == {Cron(2)}
OnceAndCron == {Once(2), Cron(2)}

AllFaults == {"scheduler", "commit", "crash"}
NoFaults == {}

SlotSymmetry == Permutations(Request) \cup Permutations(Job)
=============================================================================
