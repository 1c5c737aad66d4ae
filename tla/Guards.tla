------------------------------- MODULE Guards -------------------------------
(***************************************************************************)
(* The two guards of the downloads: the network monitor's probe            *)
(* (core/network_monitor.py) and the disk check (core/disk.py), with the   *)
(* other writers of downloads_paused: a download that found the disk full  *)
(* (services/videos.py) and the operator's `system resume`.                *)
(***************************************************************************)
EXTENDS Integers

CONSTANT Threshold   \* network_offline_threshold_consecutive_failures

ASSUME GuardsAssumption == Threshold \in Nat \ {0}

VARIABLES
    reachable,  \* the probe would be answered
    failures,   \* consecutive failures the monitor has counted (capped)
    offline,    \* the monitor holds the network to be down
    available,  \* the event network_available is set
    streak,     \* history: probes that failed since the last that did not (capped)
    low,        \* free space is at or under the threshold
    paused,     \* daemon_state.downloads_paused
    diskCheck   \* the check: "idle", or the usage it has read: "low", "ok"

guardVars == <<reachable, failures, offline, available, streak, low, paused, diskCheck>>
networkVars == <<reachable, failures, offline, available, streak>>
diskVars == <<low, paused, diskCheck>>

GuardsInit ==
    /\ reachable \in BOOLEAN /\ failures = 0 /\ offline = FALSE /\ available = TRUE
    /\ streak = 0
    /\ low \in BOOLEAN /\ paused = FALSE /\ diskCheck = "idle"

Counted(n) == IF n = Threshold THEN n ELSE n + 1

(***************************************************************************)
(* One probe at a time: the scheduler runs no second instance of a job.    *)
(***************************************************************************)
\* Mutant: the counter is reset by the end of an outage only.
ProbeAnsweredKeepsCount ==
    /\ reachable
    /\ failures' = IF offline THEN 0 ELSE failures
    /\ offline' = FALSE /\ available' = TRUE /\ streak' = 0
    /\ UNCHANGED <<reachable, diskVars>>

ProbeAnswered ==
    /\ reachable
    /\ failures' = 0 /\ offline' = FALSE /\ available' = TRUE /\ streak' = 0
    /\ UNCHANGED <<reachable, diskVars>>

ProbeFails ==
    /\ ~reachable
    /\ failures' = Counted(failures) /\ streak' = Counted(streak)
    /\ IF ~offline /\ failures' >= Threshold
       THEN offline' = TRUE /\ available' = FALSE
       ELSE UNCHANGED <<offline, available>>
    /\ UNCHANGED <<reachable, diskVars>>

NetworkChanges == reachable' = ~reachable /\ UNCHANGED <<failures, offline, available, streak, diskVars>>

(***************************************************************************)
(* The disk check reads the usage, and then, in a transaction each, the    *)
(* flag and the new flag, if it differs from what it read.                 *)
(***************************************************************************)
CheckReadsUsage ==
    /\ diskCheck = "idle" /\ diskCheck' = IF low THEN "low" ELSE "ok"
    /\ UNCHANGED <<networkVars, low, paused>>

CheckReadsFlag ==
    /\ diskCheck \in {"low", "ok"}
    /\ diskCheck' = CASE diskCheck = "low" /\ ~paused -> "pause"
                      [] diskCheck = "ok" /\ paused -> "resume"
                      [] OTHER -> "idle"
    /\ UNCHANGED <<networkVars, low, paused>>

\* Mutant: only a pause is written back.
CheckOnlyPauses ==
    /\ diskCheck \in {"pause", "resume"}
    /\ paused' = (paused \/ diskCheck = "pause") /\ diskCheck' = "idle"
    /\ UNCHANGED <<networkVars, low>>

CheckWrites ==
    /\ diskCheck \in {"pause", "resume"}
    /\ paused' = (diskCheck = "pause") /\ diskCheck' = "idle"
    /\ UNCHANGED <<networkVars, low>>

DiskChanges == low' = ~low /\ UNCHANGED <<networkVars, paused, diskCheck>>

\* `system resume`.
ManualResume ==
    /\ paused /\ paused' = FALSE
    /\ UNCHANGED <<networkVars, low, diskCheck>>

DiskJob == CheckReadsUsage \/ CheckReadsFlag \/ CheckWrites
NetworkJob == ProbeAnswered \/ ProbeFails

GuardsTypeOK ==
    /\ reachable \in BOOLEAN /\ failures \in 0..Threshold /\ offline \in BOOLEAN
    /\ available \in BOOLEAN /\ streak \in 0..Threshold
    /\ low \in BOOLEAN /\ paused \in BOOLEAN
    /\ diskCheck \in {"idle", "low", "ok", "pause", "resume"}
=============================================================================
