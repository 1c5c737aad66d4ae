-------------------------------- MODULE Pacing --------------------------------
(***************************************************************************)
(* The cross-process cooldown between downloads: DownloadPacer, the        *)
(* download_pacing_state row and the semaphore of each process             *)
(* (core/pacing.py, models/download_pacing_state.py).                      *)
(*                                                                         *)
(* Time is counted in half milliseconds, so that what the timestamp format *)
(* cuts off (timespec="milliseconds") is visible.  All processes read the  *)
(* clock of one machine, which may be set back.                            *)
(***************************************************************************)
EXTENDS Integers, FiniteSets

CONSTANTS
    Callers,        \* tasks about to download, of any process
    Process,        \* the process of each caller
    MinGap,         \* global_download_cooldown_min_seconds
    MaxGap,         \* global_download_cooldown_max_seconds
    MaxSleep,       \* DEFAULT_MAX_SINGLE_SLEEP
    MaxConcurrent,  \* max_concurrent_downloads
    Never,          \* a NULL next_allowed_at
    Horizon,        \* bound: the latest instant
    SetBacks,       \* bound: how often the clock is set back
    Breaks          \* bound: cancelled callers and killed processes

\* The settings are whole seconds, and max < min is a ConfigurationError.
ASSUME PacingAssumption ==
    /\ MinGap \in Nat /\ MinGap % 2 = 0
    /\ MaxGap \in Nat /\ MinGap <= MaxGap
    /\ MaxSleep \in Nat \ {0}
    /\ MaxConcurrent \in Nat \ {0}
    /\ Never \notin Int
    /\ Horizon \in Nat /\ SetBacks \in Nat /\ Breaks \in Nat

VARIABLES
    clock,        \* the machine's clock
    nextAllowed,  \* download_pacing_state.next_allowed_at
    pc,           \* where each caller is
    now,          \* the time it has read
    current,      \* the slot it has read
    left,         \* what is left of its asyncio.sleep
    granted,      \* history: the instant of the last reservation
    started,      \* history: when the last download began
    setBacks, breaks

localVars == <<now, current, left>>
history == <<granted, started>>
vars == <<clock, nextAllowed, pc, localVars, history, setBacks, breaks>>

Instants == 0..Horizon
Places == {"idle", "reserve", "opened", "claim", "asleep", "granted", "downloading"}

\* _iso_utc cuts the time to milliseconds.
IsoUtc(t) == t - (t % 2)

Init ==
    /\ clock = 0
    /\ nextAllowed = Never
    /\ pc = [c \in Callers |-> "idle"]
    /\ now = [c \in Callers |-> 0]
    /\ current = [c \in Callers |-> Never]
    /\ left = [c \in Callers |-> 0]
    /\ granted = Never
    /\ started = Never
    /\ setBacks = 0 /\ breaks = 0

Go(c, from, to) == pc[c] = from /\ pc' = [pc EXCEPT ![c] = to]

\* acquire() is called.
Ask(c) ==
    /\ Go(c, "idle", "reserve")
    /\ UNCHANGED <<clock, nextAllowed, localVars, history, setBacks, breaks>>

\* The locals of a call that has returned, or starts again, are gone.
Forget(cs) ==
    /\ now' = [c \in Callers |-> IF c \in cs THEN 0 ELSE now[c]]
    /\ current' = [c \in Callers |-> IF c \in cs THEN Never ELSE current[c]]

\* now = self._utcnow(), before the session is opened.
ReadClock(c) ==
    /\ Go(c, "reserve", "opened")
    /\ now' = [now EXCEPT ![c] = clock]
    /\ UNCHANGED <<clock, nextAllowed, current, left, history, setBacks, breaks>>

Busy(slot, t) == slot # Never /\ slot > t

\* The fast path: a slot that is not due is slept on, at most MaxSleep.
ReadSlot(c) ==
    /\ \/ /\ Busy(nextAllowed, now[c])
          /\ Go(c, "opened", "asleep")
          /\ Forget({c})
          /\ LET wait == nextAllowed - now[c] + 2
             IN left' = [left EXCEPT ![c] = IF wait < MaxSleep THEN wait ELSE MaxSleep]
       \/ /\ ~Busy(nextAllowed, now[c])
          /\ Go(c, "opened", "claim")
          /\ current' = [current EXCEPT ![c] = nextAllowed]
          /\ UNCHANGED <<now, left>>
    /\ UNCHANGED <<clock, nextAllowed, history, setBacks, breaks>>

\* Mutant: the update has no condition.
ReservableAlways(c) == TRUE

\* Mutant: the claim repeats the fast path's test with < on the text.
ReservableStrictly(c) == ~Busy(nextAllowed, IsoUtc(now[c]) - 1)

\* The compare-and-set of reserve_download_slot, with the time read before.
Reservable(c) == ~Busy(nextAllowed, IsoUtc(now[c]))

Claim(c) ==
    /\ \/ /\ Reservable(c)
          /\ Go(c, "claim", "granted")
          /\ \E draw \in MinGap..MaxGap : nextAllowed' = IsoUtc(now[c] + draw)
          /\ granted' = IsoUtc(now[c])
       \/ /\ ~Reservable(c)
          /\ Go(c, "claim", "reserve")      \* the race is lost: recompute
          /\ UNCHANGED <<nextAllowed, granted>>
    /\ Forget({c})
    /\ UNCHANGED <<clock, left, started, setBacks, breaks>>

Wake(c) ==
    /\ left[c] = 0
    /\ Go(c, "asleep", "reserve")
    /\ UNCHANGED <<clock, nextAllowed, localVars, history, setBacks, breaks>>

\* async with semaphore, which the callers enter after acquire().
Running(p) == {c \in Callers : Process[c] = p /\ pc[c] = "downloading"}

EnterSemaphore(c) ==
    /\ Cardinality(Running(Process[c])) < MaxConcurrent
    /\ Go(c, "granted", "downloading")
    /\ started' = clock
    /\ UNCHANGED <<clock, nextAllowed, localVars, granted, setBacks, breaks>>

LeaveSemaphore(c) ==
    /\ Go(c, "downloading", "idle")
    /\ UNCHANGED <<clock, nextAllowed, localVars, history, setBacks, breaks>>

\* A caller is cancelled, or its process killed with all of its callers: the
\* database keeps the reservation, and nobody takes it over.
Break(who) ==
    /\ breaks < Breaks /\ breaks' = breaks + 1
    /\ \E c \in who : pc[c] # "idle"
    /\ pc' = [c \in Callers |-> IF c \in who THEN "idle" ELSE pc[c]]
    /\ left' = [c \in Callers |-> IF c \in who THEN 0 ELSE left[c]]
    /\ Forget(who)
    /\ UNCHANGED <<clock, nextAllowed, history, setBacks>>

\* Time passes, for the sleepers (a monotonic clock) too.
Tick ==
    /\ clock < Horizon
    /\ clock' = clock + 1
    /\ left' = [c \in Callers |-> IF pc[c] = "asleep" /\ left[c] > 0
                                  THEN left[c] - 1 ELSE left[c]]
    /\ UNCHANGED <<nextAllowed, pc, now, current, history, setBacks, breaks>>

SetBack ==
    /\ setBacks < SetBacks /\ setBacks' = setBacks + 1
    /\ clock' \in {t \in Instants : t < clock}
    /\ UNCHANGED <<nextAllowed, pc, localVars, history, breaks>>

Step(c) ==
    \/ Ask(c) \/ ReadClock(c) \/ ReadSlot(c) \/ Claim(c) \/ Wake(c)
    \/ EnterSemaphore(c) \/ LeaveSemaphore(c)
    \/ Break({c}) \/ Break({d \in Callers : Process[d] = Process[c]})

Next == (\E c \in Callers : Step(c)) \/ Tick \/ SetBack

Spec == Init /\ [][Next]_vars

Slots == {Never} \cup 0..(Horizon + MaxGap)

TypeOK ==
    /\ clock \in Instants
    /\ nextAllowed \in Slots
    /\ pc \in [Callers -> Places]
    /\ now \in [Callers -> Instants]
    /\ current \in [Callers -> Slots]
    /\ left \in [Callers -> 0..MaxSleep]
    /\ granted \in {Never} \cup Instants
    /\ started \in {Never} \cup Instants
    /\ setBacks \in 0..SetBacks
    /\ breaks \in 0..Breaks

(***************************************************************************)
(* The slot in the row is the last reservation's, no sooner than MinGap    *)
(* and no later than MaxGap after it, whatever the interleaving of stale   *)
(* reads: this is what bounds a caller's wait, and what the gate rests on. *)
(***************************************************************************)
SlotOfLastGrant ==
    /\ granted = Never <=> nextAllowed = Never
    /\ granted # Never => nextAllowed \in (granted + MinGap)..(granted + MaxGap + 1)

(***************************************************************************)
(* Reservations are at least MinGap apart: with times that were read       *)
(* before the transaction, cut to milliseconds, in any number of           *)
(* processes, and even if the clock is set back.                           *)
(***************************************************************************)
Gate == INSTANCE PacingGate WITH last <- granted
ImplementsGate == Gate!Spec

(***************************************************************************)
(* "A busy row is never spin-written and a lost race is recomputed": who   *)
(* saw a due slot and still lost has lost to somebody.  The two tests      *)
(* compare a time and a text, at different precision; if they disagreed at *)
(* the boundary a caller would spin on its own.                            *)
(***************************************************************************)
LostToSomebody == [][\A c \in Callers :
    pc[c] = "claim" /\ pc'[c] = "reserve" => nextAllowed # current[c]]_vars

(***************************************************************************)
(* "Single gate every download trigger must pass before starting a         *)
(* download" (core/pacing.py:42): downloads begin at least MinGap apart.        *)
(***************************************************************************)
StartsSpaced == [][\A c \in Callers :
    pc[c] = "granted" /\ pc'[c] = "downloading" /\ started # Never
        => clock >= started + MinGap]_vars
=============================================================================
