------------------------- MODULE MCVideoLifecycle -------------------------
(* Bounds for TLC: which faults happen, and how often.                     *)
EXTENDS VideoLifecycle

NoFaults == [k \in Kinds |-> 0]

\* One writer among faults of every kind but deleted files, in two kinds of
\* history: threads that outlive their download, resources that run out.
MCSlow ==
    [NoFaults EXCEPT !["error"] = 2, !["degraded"] = 1, !["timeout"] = 1, !["kill"] = 1,
                     !["interrupt"] = 1]
MCShort ==
    [NoFaults EXCEPT !["error"] = 1, !["degraded"] = 1, !["disk"] = 1, !["ffprobe"] = 1,
                     !["kill"] = 1, !["interrupt"] = 1]

\* Faults after which a retry finds nothing wrong on disk.
MCRecoverable ==
    [NoFaults EXCEPT !["error"] = 2, !["kill"] = 1, !["disk"] = 1, !["lost"] = 1, !["ffprobe"] = 1]

\* Each kind as often as some history has it.
MCMost ==
    [NoFaults EXCEPT !["error"] = 2, !["degraded"] = 1, !["timeout"] = 1, !["kill"] = 1,
                     !["interrupt"] = 1, !["disk"] = 1, !["lost"] = 1, !["ffprobe"] = 1]

\* Two writers.
MCTwoWriters == [NoFaults EXCEPT !["error"] = 1, !["kill"] = 1]

MCDegraded == [NoFaults EXCEPT !["degraded"] = 1]
MCClaims == [MCDegraded EXCEPT !["timeout"] = 1, !["ffprobe"] = 1]
=============================================================================
