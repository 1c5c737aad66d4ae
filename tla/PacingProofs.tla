---------------------------- MODULE PacingProofs -----------------------------
(***************************************************************************)
(* Theorems about Pacing, for any callers, processes, settings and clock.  *)
(* The invariant says of the row that its slot is the last reservation's,  *)
(* on a full millisecond, and of a caller about to claim that the slot it  *)
(* has read was due at the time it has read: both are needed to show that  *)
(* the fast path and the compare-and-set agree at the boundary.            *)
(***************************************************************************)
EXTENDS Pacing, TLAPS

\* A slot is written with full milliseconds.
Whole(slot) == slot # Never => slot % 2 = 0

\* What a caller about to claim has read.
DueWhenRead(c) ==
    pc[c] = "claim" => Whole(current[c]) /\ ~Busy(current[c], now[c])

PacerInv ==
    /\ TypeOK
    /\ SlotOfLastGrant
    /\ Whole(nextAllowed)
    /\ \A c \in Callers : DueWhenRead(c)

\* Cutting an instant leaves it within a millisecond, keeps the distance of
\* whole gaps, and no slot on a full millisecond falls between the two.
LEMMA IsoUtcCuts ==
    ASSUME NEW t \in Nat
    PROVE  /\ IsoUtc(t) \in Nat
           /\ IsoUtc(t) <= t /\ t <= IsoUtc(t) + 1
           /\ IsoUtc(t) % 2 = 0
BY DEF IsoUtc

LEMMA WholeSlotDue ==
    ASSUME NEW t \in Nat, NEW slot \in Nat, slot % 2 = 0, slot <= t
    PROVE  slot <= IsoUtc(t)
BY DEF IsoUtc

LEMMA SlotAfterGrant ==
    ASSUME NEW t \in Nat, NEW draw \in MinGap..MaxGap
    PROVE  /\ draw \in Nat
           /\ IsoUtc(t + draw) \in (IsoUtc(t) + MinGap)..(IsoUtc(t) + MaxGap + 1)
           /\ IsoUtc(t + draw) % 2 = 0
<1> USE PacingAssumption
<1>1. draw \in Nat /\ draw >= MinGap /\ draw <= MaxGap
    OBVIOUS
<1>2. IsoUtc(t + draw) <= IsoUtc(t) + MaxGap + 1
    BY <1>1 DEF IsoUtc
<1>3. t + MinGap - ((t + MinGap) % 2) = IsoUtc(t) + MinGap
    BY DEF IsoUtc
<1>4. IsoUtc(t) + MinGap <= IsoUtc(t + draw)
    BY <1>1, <1>3 DEF IsoUtc
<1>5. IsoUtc(t + draw) \in Nat /\ IsoUtc(t + draw) % 2 = 0
    BY <1>1, IsoUtcCuts
<1> QED BY <1>1, <1>2, <1>4, <1>5, IsoUtcCuts

-----------------------------------------------------------------------------

LEMMA Initially == Init => PacerInv
<1> SUFFICES ASSUME Init PROVE PacerInv
    OBVIOUS
<1> USE PacingAssumption DEF Init
<1>1. TypeOK
    BY DEF TypeOK, Instants, Slots, Places
<1>2. SlotOfLastGrant
    BY DEF SlotOfLastGrant
<1>3. Whole(nextAllowed)
    BY DEF Whole
<1>4. \A c \in Callers : DueWhenRead(c)
    BY DEF DueWhenRead
<1> QED BY <1>1, <1>2, <1>3, <1>4 DEF PacerInv

\* The steps that leave the row, the last reservation and what callers have
\* read alone, and bring nobody to the claim.
LEMMA Aside ==
    ASSUME PacerInv, TypeOK',
           UNCHANGED <<nextAllowed, granted>>,
           \A c \in Callers : pc'[c] = "claim" =>
               pc[c] = "claim" /\ now'[c] = now[c] /\ current'[c] = current[c]
    PROVE  PacerInv'
<1>1. SlotOfLastGrant'
    BY DEF PacerInv, SlotOfLastGrant
<1>2. Whole(nextAllowed)'
    BY DEF PacerInv, Whole
<1>3. (\A c \in Callers : DueWhenRead(c))'
    BY DEF PacerInv, DueWhenRead, Whole, Busy
<1> QED BY <1>1, <1>2, <1>3 DEF PacerInv

\* A caller that goes on to the claim has read a whole slot that is due.
LEMMA ReadsDueSlot ==
    ASSUME PacerInv, NEW c \in Callers, ReadSlot(c)
    PROVE  PacerInv'
<1> USE PacingAssumption
<1>1. CASE Busy(nextAllowed, now[c])
  <2> DEFINE wait == nextAllowed - now[c] + 2
  <2>1. wait \in Nat
      BY <1>1 DEF PacerInv, TypeOK, Slots, Instants, Busy
  <2>2. left' = [left EXCEPT ![c] = IF wait < MaxSleep THEN wait ELSE MaxSleep]
      BY <1>1 DEF ReadSlot
  <2>3. left' \in [Callers -> 0..MaxSleep]
      BY <2>1, <2>2 DEF PacerInv, TypeOK
  <2>4. pc' = [pc EXCEPT ![c] = "asleep"] /\ Forget({c})
      BY <1>1 DEF ReadSlot, Go
  <2>5. TypeOK'
      BY <2>3, <2>4 DEF PacerInv, TypeOK, ReadSlot, Forget, Slots, Instants, Places, history
  <2>6. \A d \in Callers : pc'[d] = "claim" =>
            pc[d] = "claim" /\ now'[d] = now[d] /\ current'[d] = current[d]
      BY <2>4 DEF Forget, PacerInv, TypeOK
  <2> QED BY <2>5, <2>6, Aside DEF ReadSlot, history
<1>2. CASE ~Busy(nextAllowed, now[c])
  <2>1. /\ pc' = [pc EXCEPT ![c] = "claim"]
        /\ current' = [current EXCEPT ![c] = nextAllowed]
        /\ UNCHANGED <<now, left, clock, nextAllowed, history, setBacks, breaks>>
      BY <1>2 DEF ReadSlot, Go
  <2>2. TypeOK'
      BY <2>1 DEF PacerInv, TypeOK, Slots, Instants, Places, history
  <2>3. SlotOfLastGrant' /\ Whole(nextAllowed)'
      BY <2>1 DEF PacerInv, SlotOfLastGrant, Whole, history
  <2>4. ASSUME NEW d \in Callers PROVE DueWhenRead(d)'
    <3>1. CASE d = c
        BY <1>2, <2>1, <3>1 DEF PacerInv, TypeOK, DueWhenRead, Whole, Busy
    <3>2. CASE d # c
        BY <2>1, <3>2 DEF PacerInv, TypeOK, DueWhenRead, Whole, Busy
    <3> QED BY <3>1, <3>2
  <2> QED BY <2>2, <2>3, <2>4 DEF PacerInv
<1> QED BY <1>1, <1>2

\* A granted claim puts the slot MinGap to MaxGap after its own time.
LEMMA ClaimGrants ==
    ASSUME PacerInv, NEW c \in Callers, Claim(c)
    PROVE  PacerInv'
<1> USE PacingAssumption
<1>1. \A d \in Callers : pc'[d] = "claim" =>
          pc[d] = "claim" /\ now'[d] = now[d] /\ current'[d] = current[d]
    BY DEF Claim, Go, Forget, PacerInv, TypeOK
<1>2. pc' \in [Callers -> Places] /\ now' \in [Callers -> Instants] /\ current' \in [Callers -> Slots]
    BY DEF Claim, Go, Forget, PacerInv, TypeOK, Places, Instants, Slots
<1>3. CASE Reservable(c)
  <2>1. PICK draw \in MinGap..MaxGap : nextAllowed' = IsoUtc(now[c] + draw)
      BY <1>3 DEF Claim
  <2>2. granted' = IsoUtc(now[c])
      BY <1>3 DEF Claim
  <2>3. now[c] \in Nat /\ now[c] <= Horizon
      BY DEF PacerInv, TypeOK, Instants
  <2>4. draw \in Nat /\ draw <= MaxGap
      BY <2>1
  <2>5. IsoUtc(now[c]) \in Instants
    <3>1. IsoUtc(now[c]) \in Nat /\ IsoUtc(now[c]) <= now[c]
        BY <2>3, IsoUtcCuts
    <3> QED BY <2>3, <3>1 DEF Instants
  <2>6. IsoUtc(now[c] + draw) \in Slots /\ IsoUtc(now[c] + draw) \in Nat
    <3>1. now[c] + draw \in Nat /\ now[c] + draw <= Horizon + MaxGap
        BY <2>3, <2>4
    <3> QED BY <3>1, IsoUtcCuts DEF Slots
  <2>7. TypeOK'
      BY <1>2, <2>1, <2>2, <2>5, <2>6 DEF PacerInv, TypeOK, Claim
  <2>8. SlotOfLastGrant'
      BY <2>1, <2>2, <2>3, <2>5, <2>6, SlotAfterGrant DEF SlotOfLastGrant, Instants
  <2>9. Whole(nextAllowed)'
      BY <2>1, <2>3, SlotAfterGrant DEF Whole
  <2>10. (\A d \in Callers : DueWhenRead(d))'
      BY <1>1 DEF PacerInv, DueWhenRead, Whole, Busy
  <2> QED BY <2>7, <2>8, <2>9, <2>10 DEF PacerInv
<1>4. CASE ~Reservable(c)
  <2>1. UNCHANGED <<nextAllowed, granted>>
      BY <1>4 DEF Claim
  <2>2. TypeOK'
      BY <1>2, <2>1 DEF PacerInv, TypeOK, Claim
  <2> QED BY <1>1, <2>1, <2>2, Aside
<1> QED BY <1>3, <1>4

LEMMA BreakKeeps ==
    ASSUME PacerInv, NEW who \in SUBSET Callers, Break(who)
    PROVE  PacerInv'
<1> USE PacingAssumption
<1>1. TypeOK'
    BY DEF PacerInv, TypeOK, Break, Forget, Places, Instants, Slots, history
<1>2. \A d \in Callers : pc'[d] = "claim" =>
          pc[d] = "claim" /\ now'[d] = now[d] /\ current'[d] = current[d]
    BY DEF Break, Forget
<1> QED BY <1>1, <1>2, Aside DEF Break, history

LEMMA StepKeeps ==
    ASSUME PacerInv, NEW c \in Callers, Step(c)
    PROVE  PacerInv'
<1> USE PacingAssumption
<1>1. CASE Ask(c)
  <2>1. TypeOK'
      BY <1>1 DEF PacerInv, TypeOK, Ask, Go, Places, localVars, history
  <2> QED BY <1>1, <2>1, Aside DEF Ask, Go, localVars, history, PacerInv, TypeOK
<1>2. CASE ReadClock(c)
  <2>1. TypeOK'
      BY <1>2 DEF PacerInv, TypeOK, ReadClock, Go, Places, history
  <2> QED BY <1>2, <2>1, Aside DEF ReadClock, Go, history, PacerInv, TypeOK
<1>3. CASE ReadSlot(c)
    BY <1>3, ReadsDueSlot
<1>4. CASE Claim(c)
    BY <1>4, ClaimGrants
<1>5. CASE Wake(c)
  <2>1. TypeOK'
      BY <1>5 DEF PacerInv, TypeOK, Wake, Go, Places, localVars, history
  <2> QED BY <1>5, <2>1, Aside DEF Wake, Go, localVars, history, PacerInv, TypeOK
<1>6. CASE EnterSemaphore(c)
  <2>1. TypeOK'
      BY <1>6 DEF PacerInv, TypeOK, EnterSemaphore, Go, Places, localVars, Instants
  <2> QED BY <1>6, <2>1, Aside DEF EnterSemaphore, Go, localVars, PacerInv, TypeOK
<1>7. CASE LeaveSemaphore(c)
  <2>1. TypeOK'
      BY <1>7 DEF PacerInv, TypeOK, LeaveSemaphore, Go, Places, localVars, history
  <2> QED BY <1>7, <2>1, Aside DEF LeaveSemaphore, Go, localVars, history, PacerInv, TypeOK
<1>8. CASE Break({c}) \/ Break({d \in Callers : Process[d] = Process[c]})
  <2>1. {c} \in SUBSET Callers /\ {d \in Callers : Process[d] = Process[c]} \in SUBSET Callers
      OBVIOUS
  <2> QED BY <1>8, <2>1, BreakKeeps
<1> QED BY <1>1, <1>2, <1>3, <1>4, <1>5, <1>6, <1>7, <1>8 DEF Step

LEMMA Inductive == PacerInv /\ [Next]_vars => PacerInv'
<1> SUFFICES ASSUME PacerInv, [Next]_vars PROVE PacerInv'
    OBVIOUS
<1> USE PacingAssumption
<1>1. CASE \E c \in Callers : Step(c)
    BY <1>1, StepKeeps
<1>2. CASE Tick
  <2>1. TypeOK'
      BY <1>2 DEF PacerInv, TypeOK, Tick, Instants, history
  <2> QED BY <1>2, <2>1, Aside DEF Tick, history
<1>3. CASE SetBack
  <2>1. TypeOK'
      BY <1>3 DEF PacerInv, TypeOK, SetBack, localVars, history
  <2> QED BY <1>3, <2>1, Aside DEF SetBack, localVars, history
<1>4. CASE UNCHANGED vars
  <2>1. TypeOK'
      BY <1>4 DEF PacerInv, TypeOK, vars, localVars, history
  <2> QED BY <1>4, <2>1, Aside DEF vars, localVars, history
<1> QED BY <1>1, <1>2, <1>3, <1>4 DEF Next

LEMMA Invariant == Spec => []PacerInv
BY Initially, Inductive, PTL DEF Spec

-----------------------------------------------------------------------------

\* Every variable of the pacer keeps its type, for any callers and settings.
THEOREM TypeCorrect == Spec => []TypeOK
<1>1. PacerInv => TypeOK
    BY DEF PacerInv
<1> QED BY <1>1, Invariant, PTL

\* The slot in the row is that of the last reservation, MinGap to MaxGap
\* after it, whatever the callers have read before.
THEOREM SlotIsLastGrants == Spec => []SlotOfLastGrant
<1>1. PacerInv => SlotOfLastGrant
    BY DEF PacerInv
<1> QED BY <1>1, Invariant, PTL

\* Reservations are at least MinGap apart: reserve_download_slot, called
\* with times read before its transaction, implements the abstract gate.
THEOREM ReservationsSpaced == Spec => ImplementsGate
<1>1. Init => Gate!Init
    BY DEF Init, Gate!Init
<1>2. ASSUME PacerInv, NEW c \in Callers, Step(c) PROVE [Gate!Reserve]_granted
  <2>1. CASE Claim(c) /\ Reservable(c)
    <3>1. now[c] \in Nat
        BY <1>2, PacingAssumption DEF PacerInv, TypeOK, Instants
    <3>2. granted' = IsoUtc(now[c]) /\ IsoUtc(now[c]) \in Nat
        BY <2>1, <3>1, IsoUtcCuts DEF Claim
    <3>3. ASSUME granted # Never PROVE granted' >= granted + MinGap
      <4>1. nextAllowed \in (granted + MinGap)..(granted + MaxGap + 1) /\ granted \in Nat
          BY <1>2, <3>3, PacingAssumption DEF PacerInv, SlotOfLastGrant, TypeOK, Instants
      <4>2. nextAllowed <= IsoUtc(now[c])
          BY <2>1, <3>2, <3>3, <4>1, PacingAssumption
          DEF Reservable, Busy, PacerInv, SlotOfLastGrant, TypeOK, Slots
      <4> QED BY <3>2, <4>1, <4>2, PacingAssumption DEF PacerInv, TypeOK, Slots
    <3> QED BY <3>2, <3>3 DEF Gate!Reserve
  <2>2. CASE ~(Claim(c) /\ Reservable(c))
    <3>1. granted' = granted
        BY <1>2, <2>2 DEF Step, Ask, ReadClock, ReadSlot, Claim, Wake, EnterSemaphore,
                          LeaveSemaphore, Break, history
    <3> QED BY <3>1
  <2> QED BY <2>1, <2>2
<1>3. PacerInv /\ [Next]_vars => [Gate!Reserve]_granted
    BY <1>2 DEF Next, Tick, SetBack, vars, history
<1> QED BY <1>1, <1>3, Invariant, PTL DEF Spec, ImplementsGate, Gate!Spec

\* Who saw a due slot and still lost the claim has lost to another
\* reservation: the test on the time and the one on its text agree.
THEOREM LosersLostToSomebody == Spec => LostToSomebody
<1>1. ASSUME PacerInv, NEW c \in Callers, [Next]_vars, pc[c] = "claim", pc'[c] = "reserve"
      PROVE  nextAllowed # current[c]
  <2>1. ~Reservable(c)
    <3>1. PICK d \in Callers : Step(d)
        BY <1>1 DEF Next, Tick, SetBack, vars
    <3>2. Claim(d) /\ d = c
        BY <1>1, <3>1 DEF Step, Ask, ReadClock, ReadSlot, Claim, Wake, EnterSemaphore,
                          LeaveSemaphore, Break, Go, PacerInv, TypeOK
    <3> QED BY <1>1, <3>2 DEF Claim, Go, PacerInv, TypeOK
  <2>2. SUFFICES ASSUME nextAllowed = current[c] PROVE FALSE
      OBVIOUS
  <2>3. nextAllowed # Never /\ nextAllowed > IsoUtc(now[c])
      BY <2>1 DEF Reservable, Busy
  <2>4. nextAllowed \in Nat /\ now[c] \in Nat
      BY <1>1, <2>3, PacingAssumption DEF PacerInv, TypeOK, Slots, Instants
  <2>5. nextAllowed % 2 = 0 /\ nextAllowed <= now[c]
      BY <1>1, <2>2, <2>3, <2>4 DEF PacerInv, DueWhenRead, Whole, Busy
  <2>6. nextAllowed <= IsoUtc(now[c])
      BY <2>4, <2>5, WholeSlotDue
  <2>7. IsoUtc(now[c]) \in Nat
      BY <2>4, IsoUtcCuts
  <2> QED BY <2>3, <2>4, <2>6, <2>7
<1>2. PacerInv /\ [Next]_vars =>
          [\A c \in Callers : pc[c] = "claim" /\ pc'[c] = "reserve" => nextAllowed # current[c]]_vars
    BY <1>1
<1> QED BY <1>2, Invariant, PTL DEF Spec, LostToSomebody
=============================================================================
