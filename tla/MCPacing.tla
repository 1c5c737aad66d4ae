------------------------------- MODULE MCPacing -------------------------------
(***************************************************************************)
(* Bounds of the TLC runs of Pacing: two callers of the daemon and one of  *)
(* a command in the foreground.                                            *)
(***************************************************************************)
EXTENDS Pacing, TLC

CONSTANTS d1, d2, cli

Twins == Permutations({d1, d2})
ProcessOf == [c \in Callers |-> IF c = cli THEN "cli" ELSE "daemon"]
=============================================================================
