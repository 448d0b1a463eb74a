---------------------------- MODULE MCScheduler -----------------------------
(* TLC instance of Scheduler: the schedules and what they were created with. *)
EXTENDS Scheduler, TLC

CONSTANTS recurring, once

\* One schedule recurs at every tick, the other one happens once.
MCInterval == [s \in Schedules |-> IF s = recurring THEN 1 ELSE 0]
MCMaxAttempts == [s \in Schedules |-> IF s = recurring THEN 2 ELSE 1]
=============================================================================
