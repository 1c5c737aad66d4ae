---------------------------- MODULE BackfillQueue ----------------------------
(***************************************************************************)
(* What the backfill service promises of the queue as a whole, processes,  *)
(* slot and crashes left out: a one-at-a-time server.  An operator may     *)
(* queue or cancel an account at any moment; an account is begun only from *)
(* 'queued' and only while no account at all is 'backfilling'; and nothing *)
(* but the account being served is ever parked or completed.               *)
(* Backfill implements this specification.                                 *)
(***************************************************************************)
CONSTANT Accounts

VARIABLE status  \* backfill_status of each account

Init == status = [a \in Accounts |-> "idle"]

Move(a, s) == status' = [status EXCEPT ![a] = s]

Queue(a)  == Move(a, "queued")
Cancel(a) == Move(a, "cancelled")

\* One account at a time, over all processes (3.5, 9.1).
Begin(a) ==
    /\ status[a] = "queued"
    /\ \A b \in Accounts : status[b] # "backfilling"
    /\ Move(a, "backfilling")

\* Completed, parked, or given back to the queue (an interruption, a crash).
Leave(a) ==
    /\ status[a] = "backfilling"
    /\ \E s \in {"completed", "paused", "queued"} : Move(a, s)

Next == \E a \in Accounts : Queue(a) \/ Cancel(a) \/ Begin(a) \/ Leave(a)

Spec == Init /\ [][Next]_status
=============================================================================
