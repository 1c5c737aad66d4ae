------------------------------ MODULE MCDaemon ------------------------------
(***************************************************************************)
(* Bounds of the TLC runs of Daemon: how often each outside event may      *)
(* happen, and how many of them in one history.                            *)
(***************************************************************************)
EXTENDS Daemon, FiniteSetsExt

CONSTANT Troubles

MCKinds == {"start", "signal", "crash", "locked", "cookie", "stop", "monitor", "selfcheck"}
MCLimit == [k \in MCKinds |-> IF k = "start" THEN 2 ELSE 1]
MCTwice == [k \in MCKinds |-> IF k \in {"start", "cookie", "monitor"} THEN 2 ELSE 1]

Within ==
    2 * outages' + stageFaults'
      + MapThenSumSet(LAMBDA k : spent'[k], Kinds \ {"start"}) <= Troubles

MCSpec == Init /\ [][Next /\ Within]_vars /\ Fairness
=============================================================================
