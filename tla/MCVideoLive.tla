---------------------------- MODULE MCVideoLive -----------------------------
(***************************************************************************)
(* The run explores four kinds of history, chosen at the start: the        *)
(* monitor alone among faults of every kind but deleted files, for safety; *)
(* alone among faults that a retry can repair, or beside the backfill      *)
(* among fewer, for liveness as well.                                      *)
(***************************************************************************)
EXTENDS MCVideoLifecycle

VARIABLE profile

Profiles == [slow |-> MCSlow, short |-> MCShort, alone |-> MCRecoverable, both |-> MCTwoWriters]
Repairable == profile \in {"alone", "both"}

ProfileInit ==
    /\ profile \in DOMAIN Profiles /\ Init
    /\ pc["monitor"] # "off"
    /\ OneWriter <=> profile # "both"

Within ==
    /\ profile' = profile
    /\ \A k \in Kinds : spent'[k] <= Profiles[profile][k]

ProfileSpec ==
    /\ ProfileInit
    /\ [][Next /\ Within]_<<vars, profile>>
    /\ Fairness

(* Every video settles unless a fault leaves behind what no retry repairs. *)
EveryVideoSettlesThere == Repairable => EveryVideoSettles

(* RetryConverges, for the monitor alone: two threads that write one       *)
(* partial file may leave what no retry repairs.                           *)
RetryConvergesAlone == profile = "alone" => RetryConverges
=============================================================================
