------------------------------ MODULE ArchiveSet ------------------------------
(***************************************************************************)
(* What the download archive promises: a set of video ids that one call    *)
(* adds to or removes from.  Archive implements this specification when    *)
(* its callers take turns.                                                 *)
(***************************************************************************)
CONSTANT Ids

VARIABLE entries

Init == entries = {}

Add(v)    == entries' = entries \cup {v}
Remove(v) == entries' = entries \ {v}

Next == \E v \in Ids : Add(v) \/ Remove(v)

Spec == Init /\ [][Next]_entries
=============================================================================
