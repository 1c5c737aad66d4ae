------------------------------- MODULE MCArchive -------------------------------
(***************************************************************************)
(* Bounds of the TLC runs of Archive: two threads of the daemon and a      *)
(* command in the foreground.                                              *)
(***************************************************************************)
EXTENDS Archive

ProcessOf == [w \in Workers |-> IF w = "cli" THEN "cli" ELSE "daemon"]
=============================================================================
