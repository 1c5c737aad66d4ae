--------------------------- MODULE BackfillProofs ---------------------------
(***************************************************************************)
(* Theorems about Backfill, for any accounts, runs, sessions and bounds.   *)
(***************************************************************************)
EXTENDS Backfill, TLAPS

\* The parts of a run's step that every proof below opens.
USE DEF Goto, Set, End, Idle, StillBackfilling, NextEntry

-------------------------------------------------------------------------------
(* Type correctness.                                                       *)

\* The constants of the module, in the form the proofs use them.
LEMMA Constants ==
    /\ NoOwner \notin Accounts /\ CollectOwner \notin Accounts
    /\ NoOwner # CollectOwner
    /\ MaxEntries \in Nat /\ Limit \in [Kinds -> Nat]
    /\ DaemonRuns \subseteq Runs /\ CliRuns \subseteq Runs
BY BackfillAssumption DEF Runs

\* A run that is somewhere works on an account, inside the loop's body it still
\* has the entry it works on, and only operator sessions are at a command.
Placed ==
    \A r \in Runs :
        /\ pc[r] # "idle" => on[r] \in Accounts
        /\ pc[r] \in {"netpause", "video", "progress"} => left[r] # 0
        /\ pc[r] \in CommandPcs => r \notin DaemonRuns

TypeInv == TypeOK /\ Placed

LEMMA InitType == Init => TypeInv
<1> SUFFICES ASSUME Init PROVE TypeInv
    OBVIOUS
<1> USE Constants DEF Init
<1>1. TypeOK
    <2>1. /\ status \in [Accounts -> Statuses] /\ reason \in [Accounts -> Reasons]
          /\ review \in [Accounts -> BOOLEAN] /\ mode \in [Accounts -> {"history", "monitor"}]
        BY DEF Statuses, Reasons
    <2>2. thenMonitor \in [Accounts -> BOOLEAN]
        OBVIOUS
    <2>3. /\ slot \in Owners /\ monitorRunning \in BOOLEAN /\ diskPaused \in BOOLEAN
          /\ online \in BOOLEAN /\ beating \in BOOLEAN /\ collected \in SUBSET Accounts
        BY DEF Owners
    <2>4. seen \in [Accounts -> {"no", "queued", "resumable", "network", "probing"}]
        OBVIOUS
    <2>5. /\ pc \in [Runs -> Pcs] /\ on \in [Runs -> Accounts \cup {NoOwner}]
          /\ left \in [Runs -> 0..MaxEntries] /\ cause \in [Runs -> Reasons]
        BY DEF Pcs, Reasons
    <2>6. spent \in [Kinds -> Nat]
        OBVIOUS
    <2> QED BY <2>1, <2>2, <2>3, <2>4, <2>5, <2>6 DEF TypeOK
<1>2. Placed
    BY DEF Placed, CommandPcs
<1> QED BY <1>1, <1>2 DEF TypeInv

LEMMA SpendType ==
    ASSUME NEW k \in Kinds, Spend(k), spent \in [Kinds -> Nat]
    PROVE  spent' \in [Kinds -> Nat]
BY DEF Spend

\* Every operator command keeps the types.
LEMMA CommandType ==
    ASSUME TypeInv, NEW r \in CliRuns, Command(r)
    PROVE  TypeInv'
<1> USE Constants, BackfillAssumption
<1>1. ASSUME NEW a \in Accounts, CancelRead(r, a) PROVE TypeInv'
    BY <1>1, SpendType DEF CancelRead, TypeInv, TypeOK, Placed, rowVars, envVars, collVars,
       Pcs, CommandPcs, Kinds
<1>2. ASSUME NEW a \in Accounts, NEW i \in {"queue", "run"}, QueueRead(r, a, i) PROVE TypeInv'
    BY <1>2, SpendType DEF QueueRead, TypeInv, TypeOK, Placed, rowVars, envVars, collVars,
       Pcs, CommandPcs, GatePcs, Kinds
<1> QED BY <1>1, <1>2 DEF Command

\* Every step of a session or a run keeps the types.
LEMMA RunStepType ==
    ASSUME TypeInv, NEW r \in Runs, RunStep(r)
    PROVE  TypeInv'
<1> USE Constants DEF TypeInv, TypeOK, Placed, rowVars, envVars, collVars, Statuses, Reasons,
        Owners, Pcs, CommandPcs, GatePcs, BodyPcs, HandlerPcs
<1>1. ASSUME QueueWrite(r) PROVE TypeInv'
    BY <1>1 DEF QueueWrite
<1>2. ASSUME CancelWrite(r) PROVE TypeInv'
    BY <1>2 DEF CancelWrite
<1>3. ASSUME AcquireSlot(r) PROVE TypeInv'
    BY <1>3 DEF AcquireSlot
<1>4. ASSUME EnterTry(r) PROVE TypeInv'
    BY <1>4 DEF EnterTry
<1>5. ASSUME CheckQueued(r) PROVE TypeInv'
    BY <1>5 DEF CheckQueued
<1>6. ASSUME MarkBackfilling(r) PROVE TypeInv'
    BY <1>6 DEF MarkBackfilling
<1>7. ASSUME ListFeed(r) PROVE TypeInv'
    BY <1>7 DEF ListFeed
<1>8. ASSUME PersistTotal(r) PROVE TypeInv'
    BY <1>8 DEF PersistTotal
<1>9. ASSUME LoopHead(r) PROVE TypeInv'
    BY <1>9 DEF LoopHead
<1>10. ASSUME PauseForNetwork(r) PROVE TypeInv'
    BY <1>10 DEF PauseForNetwork
<1>11. ASSUME RunVideo(r) PROVE TypeInv'
    BY <1>11 DEF RunVideo
<1>12. ASSUME PauseForBreaker(r) PROVE TypeInv'
    <2>1. /\ status' \in [Accounts -> Statuses] /\ review' \in [Accounts -> BOOLEAN]
          /\ pc' \in [Runs -> Pcs] /\ pc' = [pc EXCEPT ![r] = "release"]
        <3>1. pc' = [pc EXCEPT ![r] = "release"]
            BY <1>12 DEF PauseForBreaker, Goto
        <3>2. status' = status \/ Set(status, on[r], "paused")
            BY <1>12 DEF PauseForBreaker, Set
        <3>3. review' = review \/ Set(review, on[r], TRUE)
            BY <1>12 DEF PauseForBreaker, Set
        <3>4. status' \in [Accounts -> Statuses]
            BY <3>2 DEF Set
        <3>5. review' \in [Accounts -> BOOLEAN]
            BY <3>3 DEF Set
        <3>6. pc' \in [Runs -> Pcs]
            BY <3>1
        <3> QED BY <3>1, <3>4, <3>5, <3>6
    <2>2. UNCHANGED <<reason, mode, thenMonitor, slot, monitorRunning, envVars, daemon,
                      collVars, on, left, cause, spent>>
        BY <1>12 DEF PauseForBreaker
    <2>3. Placed'
        BY <1>12, <2>1, <2>2 DEF PauseForBreaker
    <2>4. TypeOK'
        BY <2>1, <2>2
    <2> QED BY <2>3, <2>4
<1>13. ASSUME PersistProgress(r) PROVE TypeInv'
    BY <1>13 DEF PersistProgress
<1>14. ASSUME Finish(r) PROVE TypeInv'
    BY <1>14 DEF Finish
<1>15. ASSUME Transition(r) PROVE TypeInv'
    BY <1>15 DEF Transition, TransitionToMonitor
<1>16. ASSUME ReadCause(r) PROVE TypeInv'
    BY <1>16 DEF ReadCause
<1>17. ASSUME Unwind(r) PROVE TypeInv'
    BY <1>17 DEF Unwind
<1>18. ASSUME UnwedgeCrashed(r) PROVE TypeInv'
    BY <1>18 DEF UnwedgeCrashed
<1>19. ASSUME ReleaseSlot(r) PROVE TypeInv'
    BY <1>19 DEF ReleaseSlot
<1> QED BY <1>1, <1>2, <1>3, <1>4, <1>5, <1>6, <1>7, <1>8, <1>9, <1>10, <1>11, <1>12, <1>13, <1>14, <1>15, <1>16, <1>17, <1>18, <1>19 DEF RunStep

\* So does everything that befalls it.
LEMMA RunFaultType ==
    ASSUME TypeInv, NEW r \in Runs, RunFault(r)
    PROVE  TypeInv'
<1> USE Constants DEF TypeInv, TypeOK, Placed, rowVars, envVars, collVars, Owners, Pcs,
        GatePcs, BodyPcs, HandlerPcs, CommandPcs, Kinds, Reasons
<1>1. ASSUME NoCookie(r) PROVE TypeInv'
    BY <1>1, SpendType DEF NoCookie
<1>2. ASSUME RunCrashes(r) PROVE TypeInv'
    BY <1>2, SpendType DEF RunCrashes
<1>3. ASSUME BreakerTrips(r) PROVE TypeInv'
    BY <1>3, SpendType DEF BreakerTrips
<1>4. ASSUME Interrupt(r) PROVE TypeInv'
    BY <1>4, SpendType DEF Interrupt, Interrupted
<1>5. ASSUME Kill(r) PROVE TypeInv'
    BY <1>5, SpendType DEF Kill
<1> QED BY <1>1, <1>2, <1>3, <1>4, <1>5 DEF RunFault

\* And the collect job.
LEMMA CollectType ==
    ASSUME TypeInv, CollectStep
    PROVE  TypeInv'
<1> USE Constants DEF TypeInv, TypeOK, Placed, rowVars, envVars, collVars, runVars, Owners,
        Statuses, Reasons, Pcs, GatePcs, CommandPcs, Turn, Walked
<1>1. ASSUME CollectSnapshot PROVE TypeInv'
    BY <1>1 DEF CollectSnapshot, Classify
<1>2. ASSUME CollectDone PROVE TypeInv'
    BY <1>2 DEF CollectDone
<1>3. ASSUME NEW a \in Accounts, CollectResume(a) PROVE TypeInv'
    BY <1>3 DEF CollectResume
<1>4. ASSUME NEW a \in Accounts, CollectProbe(a) PROVE TypeInv'
    BY <1>4 DEF CollectProbe
<1>5. ASSUME NEW a \in Accounts, CollectProbed(a) PROVE TypeInv'
    BY <1>5 DEF CollectProbed
<1>6. ASSUME NEW a \in Accounts, NEW r \in DaemonRuns, CollectLaunch(r, a) PROVE TypeInv'
    BY <1>6 DEF CollectLaunch
<1> QED BY <1>1, <1>2, <1>3, <1>4, <1>5, <1>6 DEF CollectStep

\* Where an interruption sends a run: still a place of its code, never back
\* into the loop's body, and nowhere at all from "idle".
LEMMA InterruptedPlace ==
    ASSUME NEW p \in Pcs
    PROVE  /\ Interrupted(p) \in Pcs
           /\ Interrupted(p) \notin BodyPcs
           /\ Interrupted(p) \in CommandPcs => p \in CommandPcs
           /\ p = "idle" => Interrupted(p) = "idle"
BY DEF Interrupted, Pcs, GatePcs, BodyPcs, HandlerPcs, CommandPcs

\* Moving the daemon's tasks elsewhere keeps their variables well typed.
LEMMA MoveType ==
    ASSUME TypeInv, NEW dest \in [DaemonRuns -> Pcs], MoveDaemonRuns(dest),
           \A r \in DaemonRuns :
              /\ dest[r] \notin BodyPcs \cup CommandPcs
              /\ pc[r] = "idle" => dest[r] = "idle"
    PROVE  /\ pc' \in [Runs -> Pcs] /\ on' \in [Runs -> Accounts \cup {NoOwner}]
           /\ left' \in [Runs -> 0..MaxEntries] /\ cause' \in [Runs -> Reasons]
           /\ Placed'
<1> USE Constants DEF TypeInv, TypeOK
<1> DEFINE gone == {r \in DaemonRuns : dest[r] = "idle"}
<1>1. /\ pc' = [r \in Runs |-> IF r \in DaemonRuns THEN dest[r] ELSE pc[r]]
      /\ on' = [r \in Runs |-> IF r \in gone THEN NoOwner ELSE on[r]]
      /\ left' = [r \in Runs |-> IF r \in gone THEN 0 ELSE left[r]]
      /\ cause' = [r \in Runs |-> IF r \in gone THEN "none" ELSE cause[r]]
    BY DEF MoveDaemonRuns
<1>2. pc' \in [Runs -> Pcs]
    BY <1>1
<1>3. on' \in [Runs -> Accounts \cup {NoOwner}]
    BY <1>1
<1>4. left' \in [Runs -> 0..MaxEntries] /\ cause' \in [Runs -> Reasons]
    BY <1>1 DEF Reasons
<1>5. ASSUME NEW r \in Runs
      PROVE  /\ pc'[r] # "idle" => on'[r] \in Accounts
             /\ pc'[r] \in {"netpause", "video", "progress"} => left'[r] # 0
             /\ pc'[r] \in CommandPcs => r \notin DaemonRuns
    <2>1. CASE r \in gone
        BY <1>1, <2>1 DEF CommandPcs
    <2>2. CASE r \notin gone
        <3>1. on'[r] = on[r] /\ left'[r] = left[r]
            BY <1>1, <2>2
        <3>2. CASE r \in DaemonRuns
            BY <1>1, <2>2, <3>1, <3>2 DEF Placed, BodyPcs
        <3>3. CASE r \notin DaemonRuns
            BY <1>1, <3>1, <3>3 DEF Placed
        <3> QED BY <3>2, <3>3
    <2> QED BY <2>1, <2>2
<1> QED BY <1>2, <1>3, <1>4, <1>5 DEF Placed

\* And the daemon, with the tasks its stop or its crash takes along.
LEMMA DaemonType ==
    ASSUME TypeInv, DaemonRegister \/ DaemonStep \/ StopDaemon \/ CrashDaemon
    PROVE  TypeInv'
<1> USE Constants DEF TypeInv, TypeOK, Placed, rowVars, envVars, collVars, runVars, Owners,
        Statuses, Reasons, Pcs, Kinds
<1>1. ASSUME DaemonRegister PROVE TypeInv'
    BY <1>1, BackfillAssumption DEF DaemonRegister
<1>2. ASSUME ReconcileTransitions PROVE TypeInv'
    BY <1>2 DEF ReconcileTransitions, TransitionToMonitor
<1>3. ASSUME ReconcileStale PROVE TypeInv'
    BY <1>3 DEF ReconcileStale
<1>4. ASSUME DaemonStopped PROVE TypeInv'
    BY <1>4 DEF DaemonStopped
<1>5. ASSUME StopDaemon PROVE TypeInv'
    <2> DEFINE dest == [r \in DaemonRuns |-> Interrupted(pc[r])]
    <2>1. dest \in [DaemonRuns -> Pcs] /\ MoveDaemonRuns(dest)
        BY <1>5, InterruptedPlace DEF StopDaemon
    <2>2. \A r \in DaemonRuns : /\ dest[r] \notin BodyPcs \cup CommandPcs
                                /\ pc[r] = "idle" => dest[r] = "idle"
        BY InterruptedPlace
    <2> HIDE DEF dest
    <2>3. spent' \in [Kinds -> Nat]
        BY <1>5, SpendType DEF StopDaemon
    <2> QED BY <1>5, <2>1, <2>2, <2>3, MoveType DEF StopDaemon, CollectorGone
<1>6. ASSUME CrashDaemon PROVE TypeInv'
    <2> DEFINE dest == [r \in DaemonRuns |-> "idle"]
    <2>1. dest \in [DaemonRuns -> Pcs] /\ MoveDaemonRuns(dest)
        BY <1>6 DEF CrashDaemon
    <2>2. \A r \in DaemonRuns : dest[r] \notin BodyPcs \cup CommandPcs /\ dest[r] = "idle"
        BY DEF BodyPcs, CommandPcs
    <2> HIDE DEF dest
    <2>3. spent' \in [Kinds -> Nat]
        BY <1>6, SpendType DEF CrashDaemon
    <2> QED BY <1>6, <2>1, <2>2, <2>3, MoveType DEF CrashDaemon, CollectorGone
<1> QED BY <1>1, <1>2, <1>3, <1>4, <1>5, <1>6 DEF DaemonStep

LEMMA NextType ==
    ASSUME TypeInv, [Next]_vars
    PROVE  TypeInv'
<1>1. ASSUME NEW a \in Accounts, CollectNotLaunched(a) PROVE TypeInv'
    BY <1>1, SpendType DEF CollectNotLaunched, TypeInv, TypeOK, Placed, rowVars, envVars,
       runVars, Kinds
<1>2. ASSUME DiskChanges \/ NetworkChanges PROVE TypeInv'
    BY <1>2, SpendType DEF DiskChanges, NetworkChanges, TypeInv, TypeOK, Placed, rowVars,
       collVars, runVars, Kinds
<1>3. ASSUME UNCHANGED vars PROVE TypeInv'
    BY <1>3 DEF vars, TypeInv, TypeOK, Placed, rowVars, envVars, collVars, runVars
<1> QED BY CommandType, RunStepType, RunFaultType, CollectType, DaemonType, <1>1, <1>2, <1>3
        DEF Next

\* The columns, the slot and the actors' variables keep the values the schema
\* and the code give them, whatever the actors do and however often.
THEOREM TypeCorrect == Spec => []TypeOK
<1>1. TypeInv /\ [Next]_vars => TypeInv'
    BY NextType
<1>2. TypeInv => TypeOK
    BY DEF TypeInv
<1> QED BY InitType, <1>1, <1>2, PTL DEF Spec

LEMMA TypeInvariant == Spec => []TypeInv
<1>1. TypeInv /\ [Next]_vars => TypeInv'
    BY NextType
<1> QED BY InitType, <1>1, PTL DEF Spec

-------------------------------------------------------------------------------
(* At most one run at a time.                                              *)

\* A step that leaves the slot alone and lets no run begin to hold it.
NoNewHolder ==
    /\ slot' = slot
    /\ \A r \in Runs : Holding(r)' => Holding(r) /\ on'[r] = on[r]

LEMMA NoNewHolderExcludes ==
    ASSUME SlotExclusion, NoNewHolder
    PROVE  SlotExclusion'
BY DEF SlotExclusion, NoNewHolder

\* Of the steps of a run, only those on the slot itself are not of that kind.
LEMMA QuietRunStep ==
    ASSUME TypeInv, NEW r \in Runs, RunStep(r), ~AcquireSlot(r), ~ReleaseSlot(r)
    PROVE  NoNewHolder
<1> USE DEF TypeInv, TypeOK, NoNewHolder, Holding, BodyPcs, HandlerPcs
<1>1. ASSUME QueueWrite(r) PROVE NoNewHolder
    BY <1>1 DEF QueueWrite
<1>2. ASSUME CancelWrite(r) PROVE NoNewHolder
    BY <1>2 DEF CancelWrite
<1>3. ASSUME EnterTry(r) PROVE NoNewHolder
    BY <1>3 DEF EnterTry
<1>4. ASSUME CheckQueued(r) PROVE NoNewHolder
    BY <1>4 DEF CheckQueued
<1>5. ASSUME MarkBackfilling(r) PROVE NoNewHolder
    BY <1>5 DEF MarkBackfilling
<1>6. ASSUME ListFeed(r) PROVE NoNewHolder
    BY <1>6 DEF ListFeed
<1>7. ASSUME PersistTotal(r) PROVE NoNewHolder
    BY <1>7 DEF PersistTotal
<1>8. ASSUME LoopHead(r) PROVE NoNewHolder
    BY <1>8 DEF LoopHead
<1>9. ASSUME PauseForNetwork(r) PROVE NoNewHolder
    BY <1>9 DEF PauseForNetwork
<1>10. ASSUME RunVideo(r) PROVE NoNewHolder
    BY <1>10 DEF RunVideo
<1>11. ASSUME PauseForBreaker(r) PROVE NoNewHolder
    BY <1>11 DEF PauseForBreaker
<1>12. ASSUME PersistProgress(r) PROVE NoNewHolder
    BY <1>12 DEF PersistProgress
<1>13. ASSUME Finish(r) PROVE NoNewHolder
    BY <1>13 DEF Finish
<1>14. ASSUME Transition(r) PROVE NoNewHolder
    BY <1>14 DEF Transition
<1>15. ASSUME ReadCause(r) PROVE NoNewHolder
    BY <1>15 DEF ReadCause
<1>16. ASSUME Unwind(r) PROVE NoNewHolder
    BY <1>16 DEF Unwind
<1>17. ASSUME UnwedgeCrashed(r) PROVE NoNewHolder
    BY <1>17 DEF UnwedgeCrashed
<1> QED BY <1>1, <1>2, <1>3, <1>4, <1>5, <1>6, <1>7, <1>8, <1>9, <1>10, <1>11, <1>12, <1>13, <1>14, <1>15, <1>16, <1>17 DEF RunStep

LEMMA QuietRunFault ==
    ASSUME TypeInv, NEW r \in Runs, RunFault(r)
    PROVE  NoNewHolder
<1> USE DEF TypeInv, TypeOK, NoNewHolder, Holding, BodyPcs, HandlerPcs, GatePcs
<1>1. ASSUME NoCookie(r) \/ RunCrashes(r) \/ BreakerTrips(r) \/ Kill(r) PROVE NoNewHolder
    BY <1>1 DEF NoCookie, RunCrashes, BreakerTrips, Kill
<1>2. ASSUME Interrupt(r) PROVE NoNewHolder
    BY <1>2 DEF Interrupt, Interrupted
<1> QED BY <1>1, <1>2 DEF RunFault

LEMMA QuietCommand ==
    ASSUME TypeInv, NEW r \in CliRuns, Command(r)
    PROVE  NoNewHolder
BY Constants DEF Command, CancelRead, QueueRead, TypeInv, TypeOK, NoNewHolder, Holding,
   BodyPcs, HandlerPcs

\* A stop and a crash of the daemon: tasks end, or go on in their handlers.
LEMMA QuietMove ==
    ASSUME TypeInv, NEW dest \in [DaemonRuns -> Pcs], MoveDaemonRuns(dest), slot' = slot,
           \A r \in DaemonRuns :
              \/ dest[r] \in {"idle"} \cup CommandPcs
              \/ dest[r] \in HandlerPcs /\ Holding(r)
    PROVE  NoNewHolder
<1> USE Constants DEF TypeInv, TypeOK
<1> SUFFICES ASSUME NEW r \in Runs, Holding(r)' PROVE Holding(r) /\ on'[r] = on[r]
    BY DEF NoNewHolder
<1>1. CASE r \in DaemonRuns
    BY <1>1 DEF MoveDaemonRuns, Holding, HandlerPcs, BodyPcs, CommandPcs
<1>2. CASE r \notin DaemonRuns
    BY <1>2 DEF MoveDaemonRuns, Holding
<1> QED BY <1>1, <1>2

\* An interruption only ever sends a holder to its handlers.
LEMMA InterruptedHolds ==
    ASSUME NEW r \in Runs, pc[r] \in Pcs
    PROVE  \/ Interrupted(pc[r]) \in {"idle"} \cup CommandPcs
           \/ Interrupted(pc[r]) \in HandlerPcs /\ Holding(r)
BY DEF Interrupted, Holding, Pcs, GatePcs, BodyPcs, HandlerPcs, CommandPcs

LEMMA QuietDaemon ==
    ASSUME TypeInv, DaemonRegister \/ DaemonStep \/ StopDaemon \/ CrashDaemon
    PROVE  NoNewHolder
<1> USE Constants DEF TypeInv, TypeOK
<1>1. ASSUME DaemonRegister \/ DaemonStep PROVE NoNewHolder
    BY <1>1 DEF DaemonStep, DaemonRegister, ReconcileTransitions, ReconcileStale,
       DaemonStopped, runVars, NoNewHolder, Holding
<1>2. ASSUME StopDaemon PROVE NoNewHolder
    <2> DEFINE dest == [r \in DaemonRuns |-> Interrupted(pc[r])]
    <2>1. dest \in [DaemonRuns -> Pcs] /\ MoveDaemonRuns(dest) /\ slot' = slot
        BY <1>2, InterruptedPlace DEF StopDaemon
    <2>2. \A r \in DaemonRuns : \/ dest[r] \in {"idle"} \cup CommandPcs
                                \/ dest[r] \in HandlerPcs /\ Holding(r)
        BY InterruptedHolds
    <2> HIDE DEF dest
    <2> QED BY <2>1, <2>2, QuietMove
<1>3. ASSUME CrashDaemon PROVE NoNewHolder
    <2> DEFINE dest == [r \in DaemonRuns |-> "idle"]
    <2>1. dest \in [DaemonRuns -> Pcs] /\ MoveDaemonRuns(dest) /\ slot' = slot
        BY <1>3 DEF CrashDaemon, Pcs
    <2>2. \A r \in DaemonRuns : dest[r] = "idle"
        OBVIOUS
    <2> HIDE DEF dest
    <2> QED BY <2>1, <2>2, QuietMove
<1> QED BY <1>1, <1>2, <1>3

\* The collect job never begins to hold a slot for a run: its tasks start at
\* the cookie gate.
LEMMA QuietCollect ==
    ASSUME TypeInv, CollectStep, slot' = slot
    PROVE  NoNewHolder
<1> USE Constants DEF TypeInv, TypeOK, NoNewHolder, Holding, runVars
<1>1. CASE \E a \in Accounts, r \in DaemonRuns : CollectLaunch(r, a)
    BY <1>1 DEF CollectLaunch, BodyPcs, HandlerPcs
<1>2. CASE ~\E a \in Accounts, r \in DaemonRuns : CollectLaunch(r, a)
    BY <1>2 DEF CollectStep, CollectSnapshot, CollectDone, CollectResume, CollectProbe, CollectProbed
<1> QED BY <1>1, <1>2

LEMMA NextExclusion ==
    ASSUME TypeInv, SlotExclusion, [Next]_vars
    PROVE  SlotExclusion'
<1> USE Constants DEF TypeInv, TypeOK
<1>1. ASSUME NEW r \in Runs, AcquireSlot(r) PROVE SlotExclusion'
    <2>1. CASE slot = NoOwner
        <3>1. \A s \in Runs : ~Holding(s)
            BY <2>1 DEF SlotExclusion
        <3>2. on[r] \in Accounts /\ slot' = on[r] /\ pc' = [pc EXCEPT ![r] = "acquired"] /\ on' = on
            BY <1>1, <2>1 DEF AcquireSlot, Placed
        <3>3. \A s \in Runs : Holding(s)' => s = r
            BY <3>1, <3>2 DEF Holding
        <3> QED BY <3>2, <3>3 DEF SlotExclusion
    <2>2. CASE slot # NoOwner
        BY <1>1, <2>2, NoNewHolderExcludes DEF AcquireSlot, NoNewHolder, Holding, BodyPcs, HandlerPcs
    <2> QED BY <2>1, <2>2
<1>2. ASSUME NEW r \in Runs, ReleaseSlot(r) PROVE SlotExclusion'
    <2>1. /\ Holding(r) /\ \A s \in Runs : Holding(s) => s = r
        BY <1>2 DEF SlotExclusion, ReleaseSlot, Holding, HandlerPcs
    <2>2. \A s \in Runs : ~Holding(s)'
        BY <1>2, <2>1 DEF ReleaseSlot, Holding, BodyPcs, HandlerPcs
    <2> QED BY <2>2 DEF SlotExclusion
<1>3. ASSUME NEW a \in Accounts, CollectProbe(a) \/ CollectProbed(a) PROVE SlotExclusion'
    <2>1. pc' = pc /\ on' = on
        BY <1>3 DEF CollectProbe, CollectProbed, runVars
    <2>2. slot' = slot \/ slot \in {NoOwner, CollectOwner}
        BY <1>3 DEF CollectProbe, CollectProbed
    <2>3. CASE slot \in {NoOwner, CollectOwner}
        BY <2>1, <2>3 DEF SlotExclusion, Holding
    <2> QED BY <2>1, <2>2, <2>3 DEF SlotExclusion, Holding
<1>4. ASSUME NEW r \in Runs, RunStep(r) PROVE SlotExclusion'
    BY <1>1, <1>2, <1>4, QuietRunStep, NoNewHolderExcludes
<1>5. ASSUME CollectStep PROVE SlotExclusion'
    <2>1. CASE \E a \in Accounts : CollectProbe(a) \/ CollectProbed(a)
        BY <1>3, <2>1
    <2>2. CASE ~\E a \in Accounts : CollectProbe(a) \/ CollectProbed(a)
        <3>1. slot' = slot
            BY <1>5, <2>2 DEF CollectStep, CollectSnapshot, CollectDone, CollectResume, CollectLaunch
        <3> QED BY <1>5, <3>1, QuietCollect, NoNewHolderExcludes
    <2> QED BY <2>1, <2>2
<1>6. ASSUME \/ \E a \in Accounts : CollectNotLaunched(a)
             \/ DiskChanges \/ NetworkChanges \/ UNCHANGED vars
      PROVE  SlotExclusion'
    <2>1. NoNewHolder
        BY <1>6 DEF CollectNotLaunched, DiskChanges, NetworkChanges, vars, runVars,
           NoNewHolder, Holding
    <2> QED BY <2>1, NoNewHolderExcludes
<1> QED BY <1>4, <1>5, <1>6, QuietRunFault, QuietCommand, QuietDaemon, NoNewHolderExcludes
        DEF Next

\* At most one run of all processes is between taking the slot and giving it
\* back, for any number of accounts, tasks and operator sessions, also when an
\* exception handler is itself interrupted.
THEOREM Exclusion == Spec => []SlotExclusion
<1>1. Init => SlotExclusion
    BY DEF Init, SlotExclusion, Holding, BodyPcs, HandlerPcs
<1>2. TypeInv /\ SlotExclusion /\ [Next]_vars => SlotExclusion'
    BY NextExclusion
<1> QED BY <1>1, <1>2, TypeInvariant, PTL DEF Spec

-------------------------------------------------------------------------------
(* A 'backfilling' row and the slot.                                       *)

\* A run that is at its gates or at the finally block knows that its row is
\* not 'backfilling': the slot was free, so no row was, or it has just seen
\* to it.
Settled(r) == pc[r] \in {"acquired", "check", "mark", "transition", "release"}

SettledRows == \A r \in Runs : Settled(r) => status[on[r]] # "backfilling"

OwnsInv == TypeInv /\ SlotExclusion /\ BackfillingOwnsSlot /\ SettledRows

\* A step that begins no backfill, leaves the slot alone and settles no run
\* whose row is 'backfilling'.
Unsettling ==
    /\ slot' = slot
    /\ \A a \in Accounts : status'[a] = "backfilling" => status[a] = "backfilling"
    /\ \A r \in Runs : Settled(r)' =>
          \/ on'[r] \in Accounts /\ status'[on'[r]] # "backfilling"
          \/ Settled(r) /\ on'[r] = on[r]

LEMMA UnsettlingOwns ==
    ASSUME OwnsInv, Unsettling
    PROVE  (BackfillingOwnsSlot /\ SettledRows)'
BY DEF OwnsInv, TypeInv, Placed, Unsettling, BackfillingOwnsSlot, SettledRows, Settled

\* Every step of a run but those that take, use or give back the slot.
LEMMA UnsettlingRunStep ==
    ASSUME OwnsInv, NEW r \in Runs, RunStep(r), ~AcquireSlot(r), ~MarkBackfilling(r), ~ReleaseSlot(r)
    PROVE  Unsettling
<1> USE DEF OwnsInv, TypeInv, TypeOK, Placed, SettledRows, Unsettling, Settled
<1>1. ASSUME QueueWrite(r) PROVE Unsettling
    BY <1>1 DEF QueueWrite
<1>2. ASSUME CancelWrite(r) PROVE Unsettling
    BY <1>2 DEF CancelWrite
<1>3. ASSUME EnterTry(r) PROVE Unsettling
    BY <1>3 DEF EnterTry, rowVars
<1>4. ASSUME CheckQueued(r) PROVE Unsettling
    BY <1>4 DEF CheckQueued, rowVars
<1>5. ASSUME ListFeed(r) PROVE Unsettling
    BY <1>5 DEF ListFeed, rowVars
<1>6. ASSUME PersistTotal(r) PROVE Unsettling
    BY <1>6 DEF PersistTotal, rowVars
<1>7. ASSUME LoopHead(r) PROVE Unsettling
    BY <1>7 DEF LoopHead, rowVars
<1>8. ASSUME PauseForNetwork(r) PROVE Unsettling
    BY <1>8 DEF PauseForNetwork
<1>9. ASSUME RunVideo(r) PROVE Unsettling
    BY <1>9 DEF RunVideo, rowVars
<1>10. ASSUME PauseForBreaker(r) PROVE Unsettling
    BY <1>10 DEF PauseForBreaker
<1>11. ASSUME PersistProgress(r) PROVE Unsettling
    BY <1>11 DEF PersistProgress, rowVars
<1>12. ASSUME Finish(r) PROVE Unsettling
    BY <1>12 DEF Finish
<1>13. ASSUME Transition(r) PROVE Unsettling
    BY <1>13 DEF Transition
<1>14. ASSUME ReadCause(r) PROVE Unsettling
    BY <1>14 DEF ReadCause, rowVars
<1>15. ASSUME Unwind(r) PROVE Unsettling
    BY <1>15 DEF Unwind
<1>16. ASSUME UnwedgeCrashed(r) PROVE Unsettling
    BY <1>16 DEF UnwedgeCrashed
<1> QED BY <1>1, <1>2, <1>3, <1>4, <1>5, <1>6, <1>7, <1>8, <1>9, <1>10, <1>11, <1>12, <1>13, <1>14, <1>15, <1>16 DEF RunStep

LEMMA UnsettlingCommand ==
    ASSUME OwnsInv, NEW r \in CliRuns, Command(r)
    PROVE  Unsettling
<1> USE Constants DEF OwnsInv, TypeInv, TypeOK, Unsettling, Settled, rowVars
<1>1. ASSUME NEW a \in Accounts, CancelRead(r, a) PROVE Unsettling
    BY <1>1 DEF CancelRead
<1>2. ASSUME NEW a \in Accounts, NEW i \in {"queue", "run"}, QueueRead(r, a, i) PROVE Unsettling
    BY <1>2 DEF QueueRead
<1> QED BY <1>1, <1>2 DEF Command

\* An interruption settles no run, as long as it spares the handlers.
LEMMA InterruptedUnsettled ==
    ASSUME NEW r \in Runs, pc[r] \in Pcs, DoubleFaults = FALSE
    PROVE  \/ Interrupted(pc[r]) \notin {"acquired", "check", "mark", "transition", "release"}
           \/ Interrupted(pc[r]) = pc[r]
BY DEF Interrupted, Pcs, GatePcs, BodyPcs, HandlerPcs, CommandPcs

LEMMA UnsettlingRunFault ==
    ASSUME OwnsInv, NEW r \in Runs, RunFault(r), DoubleFaults = FALSE
    PROVE  Unsettling
<1> USE DEF OwnsInv, TypeInv, TypeOK, Unsettling, Settled, rowVars
<1>1. ASSUME NoCookie(r) PROVE Unsettling
    BY <1>1 DEF NoCookie
<1>2. ASSUME RunCrashes(r) PROVE Unsettling
    BY <1>2 DEF RunCrashes
<1>3. ASSUME BreakerTrips(r) PROVE Unsettling
    BY <1>3 DEF BreakerTrips
<1>4. ASSUME Kill(r) PROVE Unsettling
    BY <1>4 DEF Kill
<1>5. ASSUME Interrupt(r) PROVE Unsettling
    <2>1. /\ \/ pc' = [pc EXCEPT ![r] = "idle"]
             \/ /\ pc' = [pc EXCEPT ![r] = Interrupted(pc[r])] /\ on' = on
                /\ Interrupted(pc[r]) \notin {"acquired", "check", "mark", "transition", "release"}
        BY <1>5, InterruptedUnsettled DEF Interrupt, End, Goto
    <2>2. slot' = slot /\ status' = status /\ \A q \in Runs \ {r} : on'[q] = on[q]
        BY <1>5 DEF Interrupt, End
    <2> QED BY <2>1, <2>2
<1> QED BY <1>1, <1>2, <1>3, <1>4, <1>5 DEF RunFault

LEMMA UnsettlingMove ==
    ASSUME OwnsInv, NEW dest \in [DaemonRuns -> Pcs], MoveDaemonRuns(dest), UNCHANGED <<slot, status>>,
           \A r \in DaemonRuns :
              \/ dest[r] \notin {"acquired", "check", "mark", "transition", "release"}
              \/ dest[r] = pc[r]
    PROVE  Unsettling
<1> USE Constants DEF OwnsInv, TypeInv, TypeOK
<1> SUFFICES ASSUME NEW r \in Runs, Settled(r)' PROVE Settled(r) /\ on'[r] = on[r]
    BY DEF Unsettling
<1>1. CASE r \in DaemonRuns
    BY <1>1 DEF MoveDaemonRuns, Settled
<1>2. CASE r \notin DaemonRuns
    BY <1>2 DEF MoveDaemonRuns, Settled
<1> QED BY <1>1, <1>2

LEMMA UnsettlingDaemon ==
    ASSUME OwnsInv, DaemonRegister \/ DaemonStep \/ StopDaemon \/ CrashDaemon, DoubleFaults = FALSE
    PROVE  Unsettling
<1> USE Constants DEF OwnsInv, TypeInv, TypeOK
<1>1. ASSUME DaemonRegister \/ DaemonStep PROVE Unsettling
    BY <1>1 DEF DaemonStep, DaemonRegister, ReconcileTransitions, ReconcileStale,
       DaemonStopped, runVars, rowVars, Unsettling, Settled, Placed
<1>2. ASSUME StopDaemon PROVE Unsettling
    <2> DEFINE dest == [r \in DaemonRuns |-> Interrupted(pc[r])]
    <2>1. dest \in [DaemonRuns -> Pcs] /\ MoveDaemonRuns(dest) /\ UNCHANGED <<slot, status>>
        BY <1>2, InterruptedPlace DEF StopDaemon, rowVars
    <2>2. \A r \in DaemonRuns :
              \/ dest[r] \notin {"acquired", "check", "mark", "transition", "release"}
              \/ dest[r] = pc[r]
        BY InterruptedUnsettled
    <2> HIDE DEF dest
    <2> QED BY <2>1, <2>2, UnsettlingMove
<1>3. ASSUME CrashDaemon PROVE Unsettling
    <2> DEFINE dest == [r \in DaemonRuns |-> "idle"]
    <2>1. dest \in [DaemonRuns -> Pcs] /\ MoveDaemonRuns(dest) /\ UNCHANGED <<slot, status>>
        BY <1>3 DEF CrashDaemon, rowVars, Pcs
    <2>2. \A r \in DaemonRuns : dest[r] = "idle"
        OBVIOUS
    <2> HIDE DEF dest
    <2> QED BY <2>1, <2>2, UnsettlingMove
<1> QED BY <1>1, <1>2, <1>3

LEMMA UnsettlingCollect ==
    ASSUME OwnsInv, CollectStep, slot' = slot
    PROVE  Unsettling
<1> USE Constants DEF OwnsInv, TypeInv, TypeOK, Unsettling, Settled, runVars, rowVars
<1>1. ASSUME NEW a \in Accounts, NEW r \in DaemonRuns, CollectLaunch(r, a) PROVE Unsettling
    BY <1>1 DEF CollectLaunch
<1>2. ASSUME NEW a \in Accounts, CollectResume(a) PROVE Unsettling
    BY <1>2 DEF CollectResume
<1>3. ASSUME CollectSnapshot \/ CollectDone
             \/ \E a \in Accounts : CollectProbe(a) \/ CollectProbed(a)
      PROVE  Unsettling
    BY <1>3 DEF CollectSnapshot, CollectDone, CollectProbe, CollectProbed
<1> QED BY <1>1, <1>2, <1>3 DEF CollectStep

LEMMA NextOwns ==
    ASSUME OwnsInv, [Next]_vars, DoubleFaults = FALSE
    PROVE  (BackfillingOwnsSlot /\ SettledRows)'
<1> USE Constants DEF OwnsInv, TypeInv, TypeOK
<1>1. ASSUME NEW r \in Runs, AcquireSlot(r) PROVE (BackfillingOwnsSlot /\ SettledRows)'
    <2>1. CASE slot = NoOwner
        BY <1>1, <2>1 DEF AcquireSlot, BackfillingOwnsSlot, SettledRows, Settled, Placed, rowVars
    <2>2. CASE slot # NoOwner
        <3>1. Unsettling
            BY <1>1, <2>2 DEF AcquireSlot, Unsettling, Settled, rowVars
        <3> QED BY <3>1, UnsettlingOwns
    <2> QED BY <2>1, <2>2
<1>2. ASSUME NEW r \in Runs, MarkBackfilling(r) PROVE (BackfillingOwnsSlot /\ SettledRows)'
    <2>1. Holding(r) /\ slot = on[r] /\ on[r] \in Accounts
        BY <1>2 DEF MarkBackfilling, Holding, BodyPcs, SlotExclusion
    <2>2. \A s \in Runs : Settled(s) => Holding(s)
        BY DEF Settled, Holding, BodyPcs, HandlerPcs
    <2>3. \A s \in Runs : s # r => ~Settled(s)
        BY <2>1, <2>2 DEF SlotExclusion
    <2>4. \A s \in Runs : s # r => ~Settled(s)'
        BY <1>2, <2>3 DEF MarkBackfilling, Settled
    <2>5. SettledRows'
        BY <1>2, <2>1, <2>4 DEF MarkBackfilling, SettledRows, Settled, rowVars
    <2>6. BackfillingOwnsSlot'
        BY <1>2, <2>1 DEF MarkBackfilling, BackfillingOwnsSlot
    <2> QED BY <2>5, <2>6
<1>3. ASSUME NEW r \in Runs, ReleaseSlot(r) PROVE (BackfillingOwnsSlot /\ SettledRows)'
    <2>1. slot = on[r] /\ on[r] \in Accounts /\ status[on[r]] # "backfilling"
        BY <1>3 DEF ReleaseSlot, Holding, HandlerPcs, SlotExclusion, SettledRows, Settled
    <2>2. \A a \in Accounts : status'[a] # "backfilling"
        BY <1>3, <2>1 DEF ReleaseSlot, BackfillingOwnsSlot, rowVars
    <2>3. \A s \in Runs : Settled(s)' => on'[s] \in Accounts
        BY <1>3 DEF ReleaseSlot, Settled, Placed
    <2> QED BY <2>2, <2>3 DEF BackfillingOwnsSlot, SettledRows
<1>4. ASSUME NEW a \in Accounts, CollectProbe(a) \/ CollectProbed(a)
      PROVE  (BackfillingOwnsSlot /\ SettledRows)'
    <2>1. status' = status /\ pc' = pc /\ on' = on
        BY <1>4 DEF CollectProbe, CollectProbed, rowVars, runVars
    <2>2. slot' = slot \/ slot \in {NoOwner, CollectOwner}
        BY <1>4 DEF CollectProbe, CollectProbed
    <2> QED BY <2>1, <2>2 DEF BackfillingOwnsSlot, SettledRows, Settled
<1>5. ASSUME CollectStep PROVE (BackfillingOwnsSlot /\ SettledRows)'
    <2>1. CASE \E a \in Accounts : CollectProbe(a) \/ CollectProbed(a)
        BY <1>4, <2>1
    <2>2. CASE ~\E a \in Accounts : CollectProbe(a) \/ CollectProbed(a)
        <3>1. slot' = slot
            BY <1>5, <2>2 DEF CollectStep, CollectSnapshot, CollectDone, CollectResume, CollectLaunch
        <3> QED BY <1>5, <3>1, UnsettlingCollect, UnsettlingOwns
    <2> QED BY <2>1, <2>2
<1>6. ASSUME \/ \E a \in Accounts : CollectNotLaunched(a)
             \/ DiskChanges \/ NetworkChanges \/ UNCHANGED vars
      PROVE  (BackfillingOwnsSlot /\ SettledRows)'
    <2>1. Unsettling
        BY <1>6 DEF CollectNotLaunched, DiskChanges, NetworkChanges, vars, runVars, rowVars,
           Unsettling, Settled
    <2> QED BY <2>1, UnsettlingOwns
<1>7. ASSUME NEW r \in Runs, RunStep(r) PROVE (BackfillingOwnsSlot /\ SettledRows)'
    BY <1>1, <1>2, <1>3, <1>7, UnsettlingRunStep, UnsettlingOwns
<1> QED BY <1>5, <1>6, <1>7, UnsettlingRunFault, UnsettlingCommand, UnsettlingDaemon, UnsettlingOwns
        DEF Next

LEMMA OwnsInvariant ==
    ASSUME DoubleFaults = FALSE
    PROVE  Spec => []OwnsInv
<1>1. Init => OwnsInv
    BY InitType DEF Init, OwnsInv, SlotExclusion, Holding, BodyPcs, HandlerPcs,
       BackfillingOwnsSlot, SettledRows, Settled
<1>2. OwnsInv /\ [Next]_vars => OwnsInv'
    BY NextType, NextExclusion, NextOwns DEF OwnsInv
<1> QED BY <1>1, <1>2, PTL DEF Spec

\* If no exception handler is interrupted, a row is 'backfilling' only while
\* the slot carries its account, whether its run is alive or dead.
THEOREM SlotGuardsRow ==
    ASSUME DoubleFaults = FALSE
    PROVE  Spec => []BackfillingOwnsSlot
<1>1. OwnsInv => BackfillingOwnsSlot
    BY DEF OwnsInv
<1> QED BY <1>1, OwnsInvariant, PTL

-------------------------------------------------------------------------------
(* Every step of the processes is a step of the one-at-a-time server, or    *)
(* none of its business.                                                   *)

\* A compare-and-set that takes a row out of 'backfilling'.
LEMMA LeaveStep ==
    ASSUME TypeInv, NEW a \in Accounts, NEW s \in {"completed", "paused", "queued"},
           status[a] = "backfilling", status' = [status EXCEPT ![a] = s]
    PROVE  Queue!Next
BY DEF Queue!Next, Queue!Leave, Queue!Move

LEMMA RunStepQueue ==
    ASSUME OwnsInv, NEW r \in Runs, RunStep(r)
    PROVE  [Queue!Next]_status
<1> USE DEF OwnsInv, TypeInv, TypeOK, Placed
<1>1. ASSUME QueueWrite(r) PROVE Queue!Next
    BY <1>1 DEF QueueWrite, Queue!Next, Queue!Queue, Queue!Move
<1>2. ASSUME CancelWrite(r) PROVE Queue!Next
    BY <1>2 DEF CancelWrite, Queue!Next, Queue!Cancel, Queue!Move
<1>3. ASSUME MarkBackfilling(r) PROVE [Queue!Next]_status
    <2>1. CASE status[on[r]] = "queued"
        <3>1. slot = on[r] /\ on[r] \in Accounts
            BY <1>3 DEF MarkBackfilling, Holding, BodyPcs, SlotExclusion
        <3>2. \A b \in Accounts : status[b] # "backfilling"
            BY <2>1, <3>1 DEF BackfillingOwnsSlot
        <3> QED BY <1>3, <2>1, <3>1, <3>2 DEF MarkBackfilling, Queue!Next, Queue!Begin, Queue!Move
    <2>2. CASE status[on[r]] # "queued"
        BY <1>3, <2>2 DEF MarkBackfilling
    <2> QED BY <2>1, <2>2
<1>4. ASSUME PauseForNetwork(r) PROVE [Queue!Next]_status
    BY <1>4, LeaveStep DEF PauseForNetwork
<1>5. ASSUME PauseForBreaker(r) PROVE [Queue!Next]_status
    BY <1>5, LeaveStep DEF PauseForBreaker
<1>6. ASSUME Finish(r) PROVE [Queue!Next]_status
    BY <1>6, LeaveStep DEF Finish
<1>7. ASSUME Unwind(r) PROVE [Queue!Next]_status
    BY <1>7, LeaveStep DEF Unwind
<1>8. ASSUME UnwedgeCrashed(r) PROVE [Queue!Next]_status
    BY <1>8, LeaveStep DEF UnwedgeCrashed
<1>9. ASSUME \/ AcquireSlot(r) \/ EnterTry(r) \/ CheckQueued(r) \/ ListFeed(r) \/ PersistTotal(r)
             \/ LoopHead(r) \/ RunVideo(r) \/ PersistProgress(r) \/ Transition(r)
             \/ ReadCause(r) \/ ReleaseSlot(r)
      PROVE  status' = status
    BY <1>9 DEF AcquireSlot, EnterTry, CheckQueued, ListFeed, PersistTotal, LoopHead, RunVideo,
       PersistProgress, Transition, ReadCause, ReleaseSlot, rowVars
<1> QED BY <1>1, <1>2, <1>3, <1>4, <1>5, <1>6, <1>7, <1>8, <1>9 DEF RunStep

LEMMA NextQueue ==
    ASSUME OwnsInv, [Next]_vars
    PROVE  [Queue!Next]_status
<1> USE DEF OwnsInv, TypeInv, TypeOK
<1>1. ASSUME NEW a \in Accounts, CollectResume(a) PROVE [Queue!Next]_status
    BY <1>1 DEF CollectResume, Queue!Next, Queue!Queue, Queue!Move
<1>2. ASSUME ReconcileStale PROVE [Queue!Next]_status
    <2>1. CASE \E a \in Accounts : status[a] = "backfilling"
        <3>1. PICK a \in Accounts : status[a] = "backfilling"
            BY <2>1
        <3>2. \A b \in Accounts : status[b] = "backfilling" => b = a
            BY <3>1 DEF BackfillingOwnsSlot
        <3>3. status' = [status EXCEPT ![a] = "queued"]
            BY <1>2, <3>1, <3>2 DEF ReconcileStale
        <3> QED BY <3>1, <3>3, LeaveStep
    <2>2. CASE ~\E a \in Accounts : status[a] = "backfilling"
        BY <1>2, <2>2 DEF ReconcileStale
    <2> QED BY <2>1, <2>2
<1>3. ASSUME CollectStep PROVE [Queue!Next]_status
    BY <1>1, <1>3 DEF CollectStep, CollectSnapshot, CollectDone, CollectProbe, CollectProbed,
       CollectLaunch, rowVars
<1>4. ASSUME DaemonRegister \/ DaemonStep \/ StopDaemon \/ CrashDaemon PROVE [Queue!Next]_status
    BY <1>2, <1>4 DEF DaemonStep, DaemonRegister, ReconcileTransitions, DaemonStopped,
       StopDaemon, CrashDaemon, rowVars
<1>5. ASSUME NEW r \in Runs, RunFault(r) PROVE status' = status
    BY <1>5 DEF RunFault, NoCookie, RunCrashes, BreakerTrips, Interrupt, Kill, rowVars
<1>6. ASSUME NEW r \in CliRuns, Command(r) PROVE status' = status
    BY <1>6 DEF Command, CancelRead, QueueRead, rowVars
<1>7. ASSUME \/ \E a \in Accounts : CollectNotLaunched(a)
             \/ DiskChanges \/ NetworkChanges \/ UNCHANGED vars
      PROVE  status' = status
    BY <1>7 DEF CollectNotLaunched, DiskChanges, NetworkChanges, vars, rowVars
<1> QED BY <1>3, <1>4, <1>5, <1>6, <1>7, RunStepQueue DEF Next

\* The processes, their gates, the slot, stops, crashes and restarts implement
\* the one-at-a-time queue of BackfillQueue, for any number of them.
THEOREM ImplementsQueue ==
    ASSUME DoubleFaults = FALSE
    PROVE  Spec => OneAtATime
<1>1. Init => Queue!Init
    BY DEF Init, Queue!Init
<1>2. OwnsInv /\ [Next]_vars => [Queue!Next]_status
    BY NextQueue
<1> QED BY <1>1, <1>2, OwnsInvariant, PTL DEF Spec, OneAtATime, Queue!Spec

-------------------------------------------------------------------------------
(* A cancel outlives everything but a queue command.                       *)

LEMMA NextCancel ==
    ASSUME TypeInv, [Next]_vars, NEW a \in Accounts, status[a] = "cancelled", status'[a] # "cancelled"
    PROVE  /\ status'[a] = "queued"
           /\ \E r \in CliRuns : Writes(r, a, {"queue", "run"})
<1> USE Constants DEF TypeInv, TypeOK
<1>1. ASSUME NEW r \in Runs, QueueWrite(r)
      PROVE  status'[a] = "queued" /\ \E s \in CliRuns : Writes(s, a, {"queue", "run"})
    <2>1. on[r] = a /\ status'[a] = "queued"
        BY <1>1 DEF QueueWrite, Placed
    <2>2. r \in CliRuns
        BY <1>1 DEF QueueWrite, Placed, CommandPcs, Runs
    <2>3. pc'[r] # pc[r]
        BY <1>1 DEF QueueWrite
    <2>4. Writes(r, a, {"queue", "run"})
        BY <1>1, <2>1, <2>3 DEF QueueWrite, Writes
    <2> QED BY <2>1, <2>2, <2>4
<1>2. ASSUME NEW r \in Runs, RunStep(r), ~QueueWrite(r) PROVE FALSE
    <2>1. CASE \/ CancelWrite(r) \/ MarkBackfilling(r) \/ PauseForNetwork(r) \/ PauseForBreaker(r)
        BY <2>1 DEF CancelWrite, MarkBackfilling, PauseForNetwork, PauseForBreaker, Placed
    <2>2. CASE \/ Finish(r) \/ Unwind(r) \/ UnwedgeCrashed(r)
        BY <2>2 DEF Finish, Unwind, UnwedgeCrashed, Placed
    <2>3. CASE \/ AcquireSlot(r) \/ EnterTry(r) \/ CheckQueued(r) \/ ListFeed(r) \/ PersistTotal(r)
               \/ LoopHead(r) \/ RunVideo(r) \/ PersistProgress(r) \/ Transition(r)
               \/ ReadCause(r) \/ ReleaseSlot(r)
        BY <2>3 DEF AcquireSlot, EnterTry, CheckQueued, ListFeed, PersistTotal, LoopHead, RunVideo,
           PersistProgress, Transition, ReadCause, ReleaseSlot, rowVars
    <2> QED BY <1>2, <2>1, <2>2, <2>3 DEF RunStep
<1>3. ASSUME CollectStep PROVE FALSE
    BY <1>3 DEF CollectStep, CollectSnapshot, CollectDone, CollectProbe, CollectProbed,
       CollectResume, CollectLaunch, rowVars
<1>4. ASSUME DaemonRegister \/ DaemonStep \/ StopDaemon \/ CrashDaemon PROVE FALSE
    BY <1>4 DEF DaemonStep, DaemonRegister, ReconcileTransitions, ReconcileStale, DaemonStopped,
       StopDaemon, CrashDaemon, rowVars
<1>5. ASSUME NEW r \in Runs, RunFault(r) PROVE FALSE
    BY <1>5 DEF RunFault, NoCookie, RunCrashes, BreakerTrips, Interrupt, Kill, rowVars
<1>6. ASSUME NEW r \in CliRuns, Command(r) PROVE FALSE
    BY <1>6 DEF Command, CancelRead, QueueRead, rowVars
<1>7. ASSUME \/ \E b \in Accounts : CollectNotLaunched(b)
             \/ DiskChanges \/ NetworkChanges \/ UNCHANGED vars
      PROVE  FALSE
    BY <1>7 DEF CollectNotLaunched, DiskChanges, NetworkChanges, vars, rowVars
<1> QED BY <1>1, <1>2, <1>3, <1>4, <1>5, <1>6, <1>7 DEF Next

\* A cancelled row is never taken out of 'cancelled' by the run it stops, by
\* the collector or by a restart: only an operator's queue command does it.
THEOREM CancelIsFinal == Spec => CancelHolds
<1>1. TypeInv /\ [Next]_vars =>
          [\A a \in Accounts : status[a] = "cancelled" /\ status'[a] # "cancelled" =>
              /\ status'[a] = "queued"
              /\ \E r \in CliRuns : Writes(r, a, {"queue", "run"})]_vars
    BY NextCancel
<1> QED BY <1>1, TypeInvariant, PTL DEF Spec, CancelHolds

-------------------------------------------------------------------------------
(* No row is wedged in 'backfilling' while the daemon is up.               *)

Started == daemon \in {"up", "draining"}

RunBehind ==
    Started => \A a \in Accounts : status[a] = "backfilling" =>
                   \E r \in Runs : Holding(r) /\ on[r] = a

\* A step that starts no daemon, begins no backfill and ends no run whose row
\* is 'backfilling'.
Keeping ==
    /\ Started' => Started
    /\ \A a \in Accounts : status'[a] = "backfilling" => status[a] = "backfilling"
    /\ \A r \in Runs : Holding(r) /\ status[on[r]] = "backfilling" => Holding(r)' /\ on'[r] = on[r]

LEMMA KeepingRunBehind ==
    ASSUME RunBehind, Keeping
    PROVE  RunBehind'
<1> SUFFICES ASSUME Started', NEW a \in Accounts, status'[a] = "backfilling"
             PROVE  \E r \in Runs : Holding(r)' /\ on'[r] = a
    BY DEF RunBehind
<1>1. PICK r \in Runs : Holding(r) /\ on[r] = a
    BY DEF RunBehind, Keeping
<1> QED BY <1>1 DEF Keeping

LEMMA KeepingRunStep ==
    ASSUME OwnsInv, NEW r \in Runs, RunStep(r), ~MarkBackfilling(r)
    PROVE  Keeping
<1> USE DEF OwnsInv, TypeInv, TypeOK, Placed, Keeping, Started, Holding, BodyPcs, HandlerPcs
<1>1. ASSUME QueueWrite(r) \/ CancelWrite(r) PROVE Keeping
    BY <1>1 DEF QueueWrite, CancelWrite
<1>2. ASSUME AcquireSlot(r) \/ EnterTry(r) \/ CheckQueued(r) \/ ListFeed(r) PROVE Keeping
    BY <1>2 DEF AcquireSlot, EnterTry, CheckQueued, ListFeed, rowVars
<1>3. ASSUME PersistTotal(r) \/ LoopHead(r) \/ RunVideo(r) PROVE Keeping
    BY <1>3 DEF PersistTotal, LoopHead, RunVideo, rowVars
<1>4. ASSUME PauseForNetwork(r) PROVE Keeping
    BY <1>4 DEF PauseForNetwork
<1>5. ASSUME PauseForBreaker(r) PROVE Keeping
    BY <1>5 DEF PauseForBreaker
<1>6. ASSUME PersistProgress(r) \/ Transition(r) \/ ReadCause(r) PROVE Keeping
    BY <1>6 DEF PersistProgress, Transition, ReadCause, rowVars
<1>7. ASSUME Finish(r) PROVE Keeping
    BY <1>7 DEF Finish
<1>8. ASSUME Unwind(r) \/ UnwedgeCrashed(r) PROVE Keeping
    BY <1>8 DEF Unwind, UnwedgeCrashed
<1>9. ASSUME ReleaseSlot(r) PROVE Keeping
    BY <1>9 DEF ReleaseSlot, SettledRows, Settled, rowVars
<1> QED BY <1>1, <1>2, <1>3, <1>4, <1>5, <1>6, <1>7, <1>8, <1>9 DEF RunStep

\* An interruption lets a holder go on to its handlers, but for the moment
\* after the slot's commit, when its row is not 'backfilling' yet.
LEMMA InterruptedKeeps ==
    ASSUME NEW r \in Runs, pc[r] \in Pcs, Holding(r), DoubleFaults = FALSE
    PROVE  Interrupted(pc[r]) \in HandlerPcs \/ Settled(r)
BY DEF Interrupted, Holding, Settled, Pcs, GatePcs, BodyPcs, HandlerPcs, CommandPcs

LEMMA KeepingRunFault ==
    ASSUME OwnsInv, NEW r \in Runs, RunFault(r), DoubleFaults = FALSE, Limit["kill"] = 0
    PROVE  Keeping
<1> USE DEF OwnsInv, TypeInv, TypeOK, Keeping, Started, Holding, BodyPcs, HandlerPcs, rowVars
<1>1. ASSUME NoCookie(r) \/ RunCrashes(r) \/ BreakerTrips(r) PROVE Keeping
    BY <1>1 DEF NoCookie, RunCrashes, BreakerTrips
<1>2. ASSUME Interrupt(r) PROVE Keeping
    <2>1. /\ status' = status /\ daemon' = daemon
          /\ \A s \in Runs : s # r => pc'[s] = pc[s] /\ on'[s] = on[s]
        BY <1>2 DEF Interrupt
    <2>2. CASE Interrupted(pc[r]) \in HandlerPcs
        BY <1>2, <2>1, <2>2 DEF Interrupt
    <2>3. CASE ~Holding(r) \/ Settled(r)
        BY <2>1, <2>3 DEF SettledRows, Holding
    <2> QED BY <2>2, <2>3, InterruptedKeeps DEF Holding
<1>3. ~Kill(r)
    BY Constants DEF Kill, Spend, Kinds
<1> QED BY <1>1, <1>2, <1>3 DEF RunFault

LEMMA NextRunBehind ==
    ASSUME OwnsInv, RunBehind, [Next]_vars, DoubleFaults = FALSE, Limit["kill"] = 0
    PROVE  RunBehind'
<1> USE Constants DEF OwnsInv, TypeInv, TypeOK
<1>1. ASSUME NEW r \in Runs, MarkBackfilling(r) PROVE RunBehind'
    <2>1. CASE status[on[r]] = "queued"
        <3>1. slot = on[r] /\ on[r] \in Accounts
            BY <1>1 DEF MarkBackfilling, Holding, BodyPcs, SlotExclusion
        <3>2. \A a \in Accounts : status'[a] = "backfilling" => a = on[r]
            BY <1>1, <3>1 DEF MarkBackfilling, BackfillingOwnsSlot
        <3>3. Holding(r)' /\ on'[r] = on[r]
            BY <1>1, <2>1 DEF MarkBackfilling, Holding, BodyPcs
        <3> QED BY <3>2, <3>3 DEF RunBehind
    <2>2. CASE status[on[r]] # "queued"
        BY <1>1, <2>2, KeepingRunBehind
           DEF MarkBackfilling, Keeping, Started, Holding, BodyPcs, HandlerPcs
    <2> QED BY <2>1, <2>2
<1>2. ASSUME ReconcileStale PROVE RunBehind'
    BY <1>2 DEF ReconcileStale, RunBehind
<1>3. ASSUME DaemonRegister \/ ReconcileTransitions \/ DaemonStopped \/ CrashDaemon PROVE RunBehind'
    BY <1>3 DEF DaemonRegister, ReconcileTransitions, DaemonStopped, CrashDaemon, RunBehind, Started
<1>4. ASSUME StopDaemon PROVE RunBehind'
    <2> DEFINE dest == [r \in DaemonRuns |-> Interrupted(pc[r])]
    <2>1. /\ MoveDaemonRuns(dest) /\ Started /\ status' = status
          /\ \A r \in DaemonRuns : Holding(r) => dest[r] \in HandlerPcs \/ Settled(r)
        BY <1>4, InterruptedKeeps DEF StopDaemon, Started, rowVars
    <2> HIDE DEF dest
    <2>2. ASSUME NEW r \in Runs, Holding(r), status[on[r]] = "backfilling"
          PROVE  Holding(r)' /\ on'[r] = on[r]
        <3>1. ~Settled(r)
            BY <2>2 DEF SettledRows
        <3>2. CASE r \in DaemonRuns
            BY <2>1, <2>2, <3>1, <3>2 DEF MoveDaemonRuns, Holding, HandlerPcs
        <3>3. CASE r \notin DaemonRuns
            BY <2>1, <2>2, <3>3 DEF MoveDaemonRuns, Holding
        <3> QED BY <3>2, <3>3
    <2> QED BY <2>1, <2>2, KeepingRunBehind DEF Keeping
<1>5. ASSUME CollectStep PROVE RunBehind'
    <2>1. Keeping
        BY <1>5 DEF CollectStep, CollectSnapshot, CollectDone, CollectProbe, CollectProbed,
           CollectResume, CollectLaunch, rowVars, runVars, Keeping, Started, Holding, BodyPcs, HandlerPcs
    <2> QED BY <2>1, KeepingRunBehind
<1>6. ASSUME NEW r \in CliRuns, Command(r) PROVE RunBehind'
    <2>1. Keeping
        BY <1>6 DEF Command, CancelRead, QueueRead, rowVars, Keeping, Started, Holding, BodyPcs, HandlerPcs
    <2> QED BY <2>1, KeepingRunBehind
<1>7. ASSUME \/ \E a \in Accounts : CollectNotLaunched(a)
             \/ DiskChanges \/ NetworkChanges \/ UNCHANGED vars
      PROVE  RunBehind'
    <2>1. Keeping
        BY <1>7 DEF CollectNotLaunched, DiskChanges, NetworkChanges, vars, runVars, rowVars,
           Keeping, Started, Holding
    <2> QED BY <2>1, KeepingRunBehind
<1> QED BY <1>1, <1>2, <1>3, <1>4, <1>5, <1>6, <1>7, KeepingRunStep, KeepingRunFault, KeepingRunBehind
        DEF Next, DaemonStep

\* As long as no operator's process is killed and no exception handler is
\* interrupted, a started daemon finds a live run behind every 'backfilling'
\* row: no account is wedged where neither queue nor collect can reach it.
THEOREM NoWedgedRow ==
    ASSUME DoubleFaults = FALSE, Limit["kill"] = 0
    PROVE  Spec => []BackfillingHasRun
<1>1. Init => RunBehind
    BY DEF Init, RunBehind, Started
<1>2. OwnsInv /\ RunBehind /\ [Next]_vars => RunBehind'
    BY NextRunBehind
<1>3. RunBehind => BackfillingHasRun
    BY DEF RunBehind, BackfillingHasRun, Started
<1> QED BY <1>1, <1>2, <1>3, OwnsInvariant, PTL DEF Spec
=============================================================================
