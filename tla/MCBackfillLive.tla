--------------------------- MODULE MCBackfillLive ---------------------------
(***************************************************************************)
(* The liveness run explores four kinds of history, chosen at the start:   *)
(* no faults but changing conditions, a fault, both with a single command, *)
(* and a stop with a crash.                                                *)
(***************************************************************************)
EXTENDS MCBackfill

VARIABLE profile

LimitLive == Bounds(2, 1, 2, 1, 1, 0, 0)

Profiles ==
    [calm |-> Bounds(2, 0, 2, 0, 0, 0, 0), faulty |-> Bounds(2, 1, 0, 0, 0, 0, 0),
     mixed |-> Bounds(1, 1, 2, 0, 0, 0, 0), restarts |-> Bounds(2, 0, 0, 1, 1, 0, 0)]

Within == profile' = profile /\ \A k \in Kinds : spent'[k] <= Profiles[profile][k]

ProfileSpec ==
    /\ profile \in DOMAIN Profiles
    /\ Init
    /\ [][Next /\ Within]_<<vars, profile>>
    /\ Fairness

(* QueuedStarts where no daemon dies with the slot taken (README, 5).      *)
QueuedStartsUncrashed == profile # "restarts" => QueuedStarts

(* TransitionHappens where the move to monitor mode does not itself fail:  *)
(* a failed move waits for the next start of the daemon.                   *)
TransitionSurvives == profile = "restarts" => TransitionHappens
=============================================================================
