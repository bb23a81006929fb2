----------------------------- MODULE MCLifespan -----------------------------
(* Model-checking definitions for Lifespan: two users with a task each.     *)
EXTENDS Lifespan, TLC

CONSTANTS alice, bob, taskA, taskB

Users == {alice, bob}
Tasks == {taskA, taskB}
Owners == (taskA :> alice) @@ (taskB :> bob)
=============================================================================
