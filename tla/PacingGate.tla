------------------------------ MODULE PacingGate ------------------------------
(***************************************************************************)
(* What the download pacer promises: reservations, whoever makes them, are *)
(* stamped at least MinGap apart.  Pacing implements this specification.   *)
(***************************************************************************)
EXTENDS Integers

CONSTANTS
    MinGap,     \* the cooldown's lower bound
    Never       \* no reservation yet

VARIABLE last   \* the instant of the last reservation

Init == last = Never

Reserve ==
    /\ last' \in Nat
    /\ last # Never => last' >= last + MinGap

Spec == Init /\ [][Reserve]_last
=============================================================================
