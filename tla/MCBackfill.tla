----------------------------- MODULE MCBackfill -----------------------------
(***************************************************************************)
(* Bounds of the TLC runs of Backfill: how often each outside event may    *)
(* happen.  cmd: operator commands; fault: failed gates, listings and      *)
(* downloads; env: network and disk changes; stop: graceful stops of the *)
(* daemon; crash: its deaths; ctrlc and kill: Ctrl-C in, and the death of, *)
(* an operator's process.                                                  *)
(***************************************************************************)
EXTENDS Backfill, TLC

Bounds(cmd, fault, env, stop, crash, ctrlc, kill) ==
    [k \in Kinds |->
        CASE k = "cmd" -> cmd [] k = "fault" -> fault [] k = "env" -> env
          [] k = "stop" -> stop [] k = "crash" -> crash
          [] k = "ctrlc" -> ctrlc [] k = "kill" -> kill]

\* The daemon's tasks are interchangeable (safety runs only).
TaskSymmetry == Permutations(DaemonRuns)

LimitAll      == Bounds(2, 1, 0, 1, 1, 1, 1)
LimitOrderly  == Bounds(2, 1, 1, 1, 1, 1, 0)
LimitRace     == Bounds(3, 0, 0, 0, 0, 0, 0)
LimitReview   == Bounds(2, 2, 2, 0, 0, 1, 0)
LimitOneCrash == Bounds(1, 0, 0, 0, 1, 0, 0)
=============================================================================
