------------------------- MODULE BackfillFeedProofs -------------------------
(***************************************************************************)
(* Theorems about BackfillFeed, for any feed and any bounds.               *)
(***************************************************************************)
EXTENDS BackfillFeed, TLAPS, FiniteSetTheorems

USE DEF StillBackfilling

LEMMA Constants ==
    /\ MaxVideos \in Nat /\ Threshold \in Nat \ {0} /\ Limit \in [Kinds -> Nat]
    /\ Day \in [Ids -> Nat]
    /\ \A v \in Ids : Day[v] \in Days
    /\ 0 \in Days
BY FeedAssumption DEF Days

-------------------------------------------------------------------------------
(* Type correctness.                                                       *)

\* Past the head of the loop there is an entry at hand.
AtEntry == pc \in {"download", "progress", "trip"} => next # 0

TypeInv == TypeOK /\ AtEntry

\* The little arithmetic the steps below need.
LEMMA Bounds ==
    ASSUME TypeOK
    PROVE  /\ 0 \in Days /\ 0 \in 0..MaxVideos /\ 0 \in 0..published /\ 0 \in 0..listed
           /\ listed \in 0..MaxVideos /\ published \in 0..published
           /\ listed \in Nat /\ published \in Nat
BY Constants DEF TypeOK

LEMMA InitType == Init => TypeInv
<1> SUFFICES ASSUME Init PROVE TypeInv
    OBVIOUS
<1>1. /\ published \in 0..MaxVideos /\ total \in 0..MaxVideos
      /\ listed \in 0..published /\ next \in 0..listed
    BY Constants DEF Init
<1>2. cursor \in Days /\ scope \in Days /\ moving \in Days
    BY Constants DEF Init
<1>3. row \in [Ids -> Outcomes \cup {"none", "pending"}] /\ category \in [Ids -> Categories]
    BY DEF Init, Categories
<1>4. /\ status \in Statuses /\ review \in BOOLEAN /\ pc \in Places /\ fresh \in BOOLEAN
      /\ done \in Nat /\ streak \in Nat /\ counted \in Nat
    BY DEF Init, Statuses, Places
<1>5. spent \in [Kinds -> Nat]
    BY DEF Init
<1>6. AtEntry
    BY DEF Init, AtEntry
<1> QED BY <1>1, <1>2, <1>3, <1>4, <1>5, <1>6 DEF TypeInv, TypeOK

LEMMA SpendType ==
    ASSUME NEW k \in Kinds, Spend(k), spent \in [Kinds -> Nat]
    PROVE  spent' \in [Kinds -> Nat]
BY DEF Spend

\* The page and the operator keep the types.
LEMMA OutsideType ==
    ASSUME TypeInv,
           Publish \/ QueueBackfill \/ CancelBackfill \/ Collect \/ \E v \in Ids : RetryFailed(v)
    PROVE  TypeInv'
<1> USE Constants DEF TypeInv, TypeOK, AtEntry, videoVars, accountVars, runVars, Statuses
<1>1. ASSUME Publish PROVE TypeInv'
    BY <1>1 DEF Publish
<1>2. ASSUME QueueBackfill PROVE TypeInv'
    BY <1>2, SpendType DEF QueueBackfill, Kinds
<1>3. ASSUME CancelBackfill PROVE TypeInv'
    BY <1>3, SpendType DEF CancelBackfill, Kinds
<1>4. ASSUME Collect PROVE TypeInv'
    BY <1>4 DEF Collect
<1>5. ASSUME NEW v \in Ids, RetryFailed(v) PROVE TypeInv'
    BY <1>5, SpendType DEF RetryFailed, Kinds
<1> QED BY <1>1, <1>2, <1>3, <1>4, <1>5

\* An entry of the listing is a video, and so is its date a date.
LEMMA EntryAtHand ==
    ASSUME TypeOK, next # 0
    PROVE  next \in Ids /\ next - 1 \in 0..listed /\ Day[next] \in Days
BY Constants DEF TypeOK, Ids

\* The end of a run resets its locals within their types.
LEMMA EndType ==
    ASSUME TypeOK, End, published' = published
    PROVE  /\ pc' \in Places /\ listed' \in 0..published' /\ next' \in 0..listed'
           /\ scope' \in Days /\ moving' \in Days /\ counted' \in Nat /\ fresh' \in BOOLEAN
           /\ AtEntry'
<1>1. listed' \in 0..published' /\ next' \in 0..listed'
    <2>1. listed' \in 0..published'
        BY DEF End, TypeOK
    <2>2. next' \in 0..listed'
        BY DEF End, TypeOK
    <2> QED BY <2>1, <2>2
<1>2. scope' \in Days /\ moving' \in Days
    BY Bounds DEF End
<1> QED BY <1>1, <1>2 DEF End, Places, AtEntry

LEMMA RunType ==
    ASSUME TypeInv, RunStep
    PROVE  TypeInv'
<1>b. /\ 0 \in Days /\ 0 \in 0..MaxVideos /\ 0 \in 0..published /\ 0 \in 0..listed
      /\ listed \in 0..MaxVideos /\ published \in 0..published
    BY Bounds DEF TypeInv
<1> USE DEF TypeInv, TypeOK, AtEntry, videoVars, accountVars, Places
<1>1. ASSUME Start PROVE TypeInv'
    BY <1>1 DEF Start, Statuses
<1>2. ASSUME ListFeed PROVE TypeInv'
    BY <1>2, <1>b DEF ListFeed
<1>3. ASSUME PersistTotal PROVE TypeInv'
    <2>1. CASE StillBackfilling
        BY <1>3, <2>1, <1>b DEF PersistTotal
    <2>2. CASE ~StillBackfilling
        BY <1>3, <2>2, EndType DEF PersistTotal
    <2> QED BY <2>1, <2>2
<1>4. ASSUME LeaveLoop PROVE TypeInv'
    BY <1>4 DEF LeaveLoop
<1>5. ASSUME SeeCancel PROVE TypeInv'
    BY <1>5, EndType DEF SeeCancel
<1>6. ASSUME PauseForNetwork PROVE TypeInv'
    <2>1. spent' \in [Kinds -> Nat]
        BY <1>6, SpendType DEF PauseForNetwork, Kinds
    <2>2. CASE StillBackfilling
        BY <1>6, <2>1, <2>2, EndType DEF PauseForNetwork, Statuses
    <2>3. CASE ~StillBackfilling
        <3>1. next - 1 \in 0..listed
            BY <1>6 DEF PauseForNetwork
        <3> QED BY <1>6, <2>1, <2>3, <3>1 DEF PauseForNetwork
    <2> QED BY <2>2, <2>3
<1>7. ASSUME TakeVideo PROVE TypeInv'
    BY <1>7 DEF TakeVideo
<1>8. ASSUME Handled \/ Failed \/ AuthFailed PROVE TypeInv'
    <2>1. /\ row' \in [Ids -> Outcomes \cup {"none", "pending"}]
          /\ category' \in [Ids -> Categories]
        BY <1>8 DEF Handled, Failed, AuthFailed, Outcome, Outcomes, Categories
    <2>2. streak' \in Nat /\ pc' \in {"progress", "trip"}
        BY <1>8 DEF Handled, Failed, AuthFailed
    <2>3. next # 0 /\ UNCHANGED <<published, accountVars, listed, next, scope, moving, counted, fresh, spent>>
        BY <1>8 DEF Handled, Failed, AuthFailed, Outcome
    <2> QED BY <2>1, <2>2, <2>3
<1>9. ASSUME PersistProgress PROVE TypeInv'
    <2>1. CASE StillBackfilling
        <3>1. NewCursor \in Days /\ NewDone \in Nat /\ next \in 1..listed
            BY <1>9, EntryAtHand DEF PersistProgress, NewCursor, NewDone
        <3>2. next - 1 \in 0..listed
            BY <3>1
        <3> QED BY <1>9, <2>1, <3>1, <3>2 DEF PersistProgress
    <2>2. CASE ~StillBackfilling
        BY <1>9, <2>2, EndType DEF PersistProgress
    <2> QED BY <2>1, <2>2
<1>10. ASSUME PauseForBreaker PROVE TypeInv'
    BY <1>10, EndType DEF PauseForBreaker, Statuses
<1>11. ASSUME Finish PROVE TypeInv'
    BY <1>11, EndType DEF Finish, Statuses
<1>12. ASSUME Interrupt PROVE TypeInv'
    <2>1. spent' \in [Kinds -> Nat]
        BY <1>12, SpendType DEF Interrupt, Kinds
    <2> QED BY <1>12, <2>1, EndType DEF Interrupt, Statuses
<1> QED BY <1>1, <1>2, <1>3, <1>4, <1>5, <1>6, <1>7, <1>8, <1>9, <1>10, <1>11, <1>12 DEF RunStep

LEMMA NextType ==
    ASSUME TypeInv, [Next]_vars
    PROVE  TypeInv'
<1>1. ASSUME UNCHANGED vars PROVE TypeInv'
    BY <1>1 DEF vars, TypeInv, TypeOK, AtEntry, videoVars, accountVars, runVars
<1> QED BY <1>1, OutsideType, RunType DEF Next

\* Rows, columns and the run's locals keep the values the schema and the code
\* give them; in particular the walk never leaves its listing.
THEOREM FeedTypeCorrect == Spec => []TypeOK
<1>1. TypeInv /\ [Next]_vars => TypeInv'
    BY NextType
<1>2. TypeInv => TypeOK
    BY DEF TypeInv
<1> QED BY InitType, <1>1, <1>2, PTL DEF Spec

-------------------------------------------------------------------------------
(* Coverage.                                                               *)

\* The invariant of the walk: while the row is still the run's, every entry
\* behind the loop has an outcome, the one in hand too once its download is
\* over, and the loop is only left at the end of the feed or at the boundary.
Walked ==
    StillBackfilling =>
        /\ pc = "total" => next = listed
        /\ pc \in {"loop", "download", "progress", "trip", "finish"} =>
              \A v \in Ids : next < v /\ v <= listed => Settled(v)
        /\ pc = "progress" => Settled(next)
        /\ pc = "finish" => next = 0 \/ PastCursor(next)

WalkInv == TypeInv /\ Walked

\* No step takes an outcome away: retry-failed keeps the category.
LEMMA SettledStays ==
    ASSUME TypeInv, Next, NEW v \in Ids, Settled(v)
    PROVE  Settled(v)'
<1> USE DEF TypeInv, TypeOK, Settled
<1>1. CASE UNCHANGED videoVars
    BY <1>1 DEF videoVars
<1>2. ASSUME NEW w \in Ids, RetryFailed(w) PROVE Settled(v)'
    BY <1>2 DEF RetryFailed, Outcomes
<1>3. CASE TakeVideo
    BY <1>3 DEF TakeVideo, Outcomes
<1>4. ASSUME NEW s \in Outcomes, NEW c, Outcome(s, c) PROVE Settled(v)'
    BY <1>4 DEF Outcome
<1>5. CASE Handled \/ Failed \/ AuthFailed
    BY <1>4, <1>5 DEF Handled, Failed, AuthFailed, Outcomes
<1> QED
    BY <1>1, <1>2, <1>3, <1>5
    DEF Next, RunStep, Publish, QueueBackfill, CancelBackfill, Collect, Start, ListFeed,
        PersistTotal, LeaveLoop, SeeCancel, PauseForNetwork, PersistProgress,
        PauseForBreaker, Finish, Interrupt

\* A step that leaves the run where it is leaves the walk's invariant too.
LEMMA OutsideWalk ==
    ASSUME WalkInv, Next, UNCHANGED runVars, status' = "backfilling" => status = "backfilling"
    PROVE  Walked'
<1>1. \A v \in Ids : Settled(v) => Settled(v)'
    BY SettledStays DEF WalkInv
<1>2. pc = "progress" => next \in Ids
    BY EntryAtHand DEF WalkInv, TypeInv, AtEntry
<1>3. next' = next /\ pc' = pc /\ listed' = listed /\ scope' = scope
    BY DEF runVars
<1>4. PastCursor(next)' <=> PastCursor(next)
    BY <1>3 DEF PastCursor
<1> QED BY <1>1, <1>2, <1>3, <1>4 DEF WalkInv, Walked

\* The end of a run leaves no walk to speak of.
LEMMA EndWalk == ASSUME End PROVE Walked'
BY DEF End, Walked

LEMMA RunWalk ==
    ASSUME WalkInv, RunStep
    PROVE  Walked'
<1>0. TypeInv /\ TypeOK /\ Walked
    BY DEF WalkInv, TypeInv
<1>s. \A v \in Ids : Settled(v) => Settled(v)'
    BY <1>0, SettledStays DEF Next
<1>n. next \in Nat /\ listed \in Nat /\ next <= listed
    BY <1>0, Bounds DEF TypeOK
<1>1. CASE Start
    BY <1>1 DEF Start, Walked
<1>2. CASE ListFeed
    BY <1>2 DEF ListFeed, Walked
<1>3. CASE PersistTotal
    <2>1. CASE StillBackfilling
        <3>1. pc' = "loop" /\ next' = next /\ listed' = listed /\ next = listed
            BY <1>0, <1>3, <2>1 DEF PersistTotal, Walked
        <3> QED BY <3>1, <1>n DEF Walked, Ids
    <2>2. CASE ~StillBackfilling
        BY <1>3, <2>2, EndWalk DEF PersistTotal
    <2> QED BY <2>1, <2>2
<1>4. CASE LeaveLoop
    <2>1. /\ pc = "loop" /\ pc' = "finish" /\ next' = next /\ listed' = listed /\ scope' = scope
          /\ status' = status
          /\ next = 0 \/ PastCursor(next)
        BY <1>4 DEF LeaveLoop, accountVars
    <2> QED BY <1>0, <1>s, <2>1 DEF Walked, PastCursor
<1>5. CASE SeeCancel \/ PauseForBreaker \/ Finish \/ Interrupt
    BY <1>5, EndWalk DEF SeeCancel, PauseForBreaker, Finish, Interrupt
<1>6. CASE PauseForNetwork
    <2>1. CASE StillBackfilling
        BY <1>6, <2>1, EndWalk DEF PauseForNetwork
    <2>2. CASE ~StillBackfilling
        BY <1>6, <2>2 DEF PauseForNetwork, Walked
    <2> QED BY <2>1, <2>2
<1>7. CASE TakeVideo
    <2>1. /\ pc = "loop" /\ next' = next /\ listed' = listed /\ status' = status
          /\ pc' \in {"progress", "download"}
        BY <1>7 DEF TakeVideo, accountVars
    <2>2. ASSUME pc' = "progress" PROVE Settled(next)'
        <3>1. row[next] \in Outcomes
            BY <1>7, <2>2 DEF TakeVideo
        <3>2. next \in Ids
            BY <1>0, <1>7, EntryAtHand DEF TakeVideo
        <3> QED BY <1>s, <2>1, <3>1, <3>2 DEF Settled
    <2> QED BY <1>0, <1>s, <2>1, <2>2 DEF Walked
<1>8. CASE Handled \/ Failed \/ AuthFailed
    <2>1. /\ pc = "download" /\ pc' \in {"progress", "trip"}
          /\ next' = next /\ listed' = listed /\ status' = status
        BY <1>8 DEF Handled, Failed, AuthFailed, Outcome, accountVars
    <2>2. next \in Ids
        BY <1>0, <2>1, EntryAtHand DEF TypeInv, AtEntry
    <2>3. ASSUME NEW s \in Outcomes, NEW c, Outcome(s, c) PROVE Settled(next)'
        BY <1>0, <2>1, <2>2, <2>3 DEF Outcome, Settled, TypeOK
    <2>4. Settled(next)'
        BY <1>8, <2>3 DEF Handled, Failed, AuthFailed, Outcomes
    <2> QED BY <1>0, <1>s, <2>1, <2>4 DEF Walked
<1>9. CASE PersistProgress
    <2>1. CASE StillBackfilling
        <3>1. /\ pc = "progress" /\ pc' = "loop" /\ next' = next - 1 /\ listed' = listed
              /\ status' = status
            BY <1>9, <2>1 DEF PersistProgress
        <3>2. Settled(next) /\ next \in Ids
            BY <1>0, <2>1, <3>1, EntryAtHand DEF Walked, TypeInv, AtEntry
        <3>3. ASSUME NEW v \in Ids, next - 1 < v, v <= listed PROVE Settled(v)'
            <4>1. next < v \/ v = next
                BY <1>n, <3>3 DEF Ids
            <4> QED BY <1>0, <1>s, <2>1, <3>1, <3>2, <3>3, <4>1 DEF Walked
        <3> QED BY <3>1, <3>3 DEF Walked
    <2>2. CASE ~StillBackfilling
        BY <1>9, <2>2, EndWalk DEF PersistProgress
    <2> QED BY <2>1, <2>2
<1> QED
    BY <1>1, <1>2, <1>3, <1>4, <1>5, <1>6, <1>7, <1>8, <1>9 DEF RunStep

LEMMA InitWalk == Init => WalkInv
BY InitType DEF Init, WalkInv, Walked

LEMMA NextWalk ==
    ASSUME WalkInv, [Next]_vars
    PROVE  WalkInv'
<1>1. TypeInv'
    BY NextType DEF WalkInv
<1>2. ASSUME UNCHANGED vars PROVE Walked'
    <2>1. /\ UNCHANGED <<row, category, status, pc, listed, next, scope>>
          /\ Walked
        BY <1>2 DEF vars, videoVars, accountVars, runVars, WalkInv
    <2>2. \A v : Settled(v)' <=> Settled(v)
        BY <2>1 DEF Settled
    <2>3. PastCursor(next)' <=> PastCursor(next)
        BY <2>1 DEF PastCursor
    <2> QED BY <2>1, <2>2, <2>3 DEF Walked
<1>3. ASSUME RunStep PROVE Walked'
    BY <1>3, RunWalk
<1>4. ASSUME Publish \/ QueueBackfill \/ CancelBackfill \/ Collect \/ \E v \in Ids : RetryFailed(v)
      PROVE Walked'
    <2>1. Next /\ UNCHANGED runVars
        BY <1>4 DEF Next, Publish, QueueBackfill, CancelBackfill, Collect, RetryFailed
    <2>2. status' = "backfilling" => status = "backfilling"
        BY <1>4 DEF Publish, QueueBackfill, CancelBackfill, Collect, RetryFailed, accountVars
    <2> QED BY <2>1, <2>2, OutsideWalk
<1> QED BY <1>1, <1>2, <1>3, <1>4 DEF WalkInv, Next

\* The walk's invariant gives the completion its coverage.
LEMMA FinishCovers ==
    ASSUME WalkInv, [Next]_vars, status # "completed", status' = "completed"
    PROVE  \A v \in 1..listed :
              \/ Settled(v)
              \/ \E w \in v..listed : Day[w] # 0 /\ Day[w] < scope
<1>0. TypeOK /\ Walked
    BY DEF WalkInv, TypeInv
<1>1. Finish /\ StillBackfilling
    BY DEF Next, RunStep, vars, accountVars, Publish, QueueBackfill, CancelBackfill, Collect,
        RetryFailed, Start, ListFeed, PersistTotal, LeaveLoop, SeeCancel, PauseForNetwork,
        TakeVideo, Handled, Failed, AuthFailed, Outcome, PersistProgress, PauseForBreaker,
        Finish, Interrupt
<1>2. SUFFICES ASSUME NEW v \in 1..listed, ~Settled(v)
               PROVE  \E w \in v..listed : Day[w] # 0 /\ Day[w] < scope
    OBVIOUS
<1>3. next \in Nat /\ listed \in Nat /\ next <= listed /\ v \in Ids
    <2>1. next \in Nat /\ listed \in Nat /\ next <= listed
        BY <1>0, Bounds DEF TypeOK
    <2>2. listed \in 0..MaxVideos /\ MaxVideos \in Nat
        BY <1>0, Bounds, Constants
    <2>3. v \in Ids
        BY <2>2 DEF Ids
    <2> QED BY <2>1, <2>3
<1>4. ~(next < v)
    BY <1>0, <1>1, <1>2, <1>3 DEF Walked, Finish
<1>5. next \in v..listed /\ PastCursor(next)
    BY <1>0, <1>1, <1>3, <1>4 DEF Walked, Finish
<1> QED BY <1>5 DEF PastCursor

\* A run that completes its account has brought every entry of its listing to
\* an outcome, except from the first one older than the cursor it started at,
\* whatever happened on the way (the loop of _run_backfill_loop and the
\* rowcount guards of its four status writes).
THEOREM CompletedMeansCovered == Spec => CompletionCovers
<1>1. WalkInv /\ [Next]_vars => WalkInv'
    BY NextWalk
<1>2. WalkInv /\ [Next]_vars =>
        [status # "completed" /\ status' = "completed" =>
            \A v \in 1..listed :
                \/ Settled(v)
                \/ \E w \in v..listed : Day[w] # 0 /\ Day[w] < scope]_vars
    BY FinishCovers
<1> QED BY InitWalk, <1>1, <1>2, PTL DEF Spec, CompletionCovers

-------------------------------------------------------------------------------
(* The cursor.                                                             *)

\* A date the walk has seen an outcome at.
Reached(d) == d # 0 => \E v \in Ids : Day[v] = d /\ Settled(v)

\* The run's copy of the cursor is as good as the row's.
CursorInv == WalkInv /\ Reached(cursor) /\ Reached(moving)

LEMMA ReachedStays ==
    ASSUME TypeInv, Next, NEW d, Reached(d)
    PROVE  d # 0 => \E v \in Ids : Day[v] = d /\ Settled(v)'
BY SettledStays DEF Reached

LEMMA NextCursor ==
    ASSUME CursorInv, [Next]_vars
    PROVE  CursorInv'
<1>0. WalkInv /\ TypeInv /\ Walked /\ Reached(0)
    BY DEF CursorInv, WalkInv, Reached
<1>1. WalkInv'
    BY <1>0, NextWalk
<1>2. CASE UNCHANGED vars
    <2>1. UNCHANGED <<cursor, moving, row, category>>
        BY <1>2 DEF vars, videoVars, accountVars, runVars
    <2> QED BY <1>1, <2>1 DEF CursorInv, Reached, Settled
<1>3. CASE Next
    <2> DEFINE Seen(d) == d # 0 => \E v \in Ids : Day[v] = d /\ Settled(v)'
    <2>1. Seen(cursor) /\ Seen(moving) /\ Seen(0)
        BY <1>0, <1>3, ReachedStays DEF CursorInv
    <2>2. ASSUME PersistProgress, StillBackfilling
          PROVE  Seen(cursor') /\ Seen(moving')
        <3>1. PICK v \in Ids : v = next /\ Settled(v)
            BY <1>0, <2>2, EntryAtHand DEF PersistProgress, Walked, TypeInv, AtEntry
        <3>2. Settled(v)'
            BY <1>0, <1>3, <3>1, SettledStays
        <3>3. Seen(NewCursor)
            BY <2>1, <3>1, <3>2 DEF NewCursor
        <3>4. cursor' = NewCursor /\ moving' = NewCursor
            BY <2>2 DEF PersistProgress
        <3> QED BY <3>3, <3>4
    <2>3. ASSUME ~(PersistProgress /\ StillBackfilling)
          PROVE  cursor' = cursor /\ moving' \in {cursor, moving, 0}
        BY <1>3, <2>3
        DEF Next, RunStep, accountVars, runVars, Publish, QueueBackfill, CancelBackfill,
            Collect, RetryFailed, Start, ListFeed, PersistTotal, LeaveLoop, SeeCancel,
            PauseForNetwork, TakeVideo, Handled, Failed, AuthFailed, Outcome,
            PersistProgress, PauseForBreaker, Finish, Interrupt, End
    <2>4. Seen(cursor') /\ Seen(moving')
        BY <2>1, <2>2, <2>3
    <2> QED BY <1>1, <2>4 DEF CursorInv, Reached
<1> QED BY <1>2, <1>3

\* The cursor an account is resumed from is the date of a video that has had
\* an outcome: no outage, cancel, breaker pause, crash or restart moves it to
\* an entry that was not handled.
THEOREM CursorIsReached == Spec => []CursorOnOutcome
<1>1. Init => CursorInv
    BY InitWalk DEF Init, CursorInv, Reached
<1>2. CursorInv /\ [Next]_vars => CursorInv'
    BY NextCursor
<1>3. CursorInv => CursorOnOutcome
    BY DEF CursorInv, Reached, CursorOnOutcome
<1> QED BY <1>1, <1>2, <1>3, PTL DEF Spec

-------------------------------------------------------------------------------
(* Progress.                                                               *)

WithOutcome == {v \in Ids : row[v] \in Outcomes}

\* A fresh outcome that is not counted yet.
Uncounted == pc = "progress" /\ fresh

\* The invariant of the counter: the run's copy is the row's, the entry being
\* downloaded has no outcome, and what is still to be counted is there.
CountInv ==
    /\ TypeInv
    /\ pc \in {"loop", "download", "progress", "trip", "finish"} => counted = done
    /\ pc = "download" => row[next] \notin Outcomes
    /\ done <= OutcomeCount + spent["retry"]
    /\ Uncounted => done + 1 <= OutcomeCount + spent["retry"]

LEMMA WithOutcomeFinite ==
    IsFiniteSet(WithOutcome) /\ Cardinality(WithOutcome) \in Nat
    /\ OutcomeCount = Cardinality(WithOutcome)
<1>1. IsFiniteSet(Ids)
    BY FS_Interval, Constants DEF Ids
<1>2. IsFiniteSet(WithOutcome)
    BY <1>1, FS_Subset DEF WithOutcome
<1> QED BY <1>2, FS_CardinalityType DEF OutcomeCount, WithOutcome

\* Outcomes come one at a time, and retry-failed pays for the one it takes.
LEMMA OutcomeAdds ==
    ASSUME TypeOK, pc = "download", next \in Ids, row[next] \notin Outcomes,
           NEW s \in Outcomes, row' = [row EXCEPT ![next] = s]
    PROVE  OutcomeCount' = OutcomeCount + 1
<1>1. WithOutcome' = WithOutcome \cup {next} /\ next \notin WithOutcome
    BY DEF TypeOK, WithOutcome
<1>2. Cardinality(WithOutcome \cup {next}) = Cardinality(WithOutcome) + 1
    BY <1>1, WithOutcomeFinite, FS_AddElement
<1>3. OutcomeCount' = Cardinality(WithOutcome')
    BY DEF OutcomeCount, WithOutcome
<1> QED BY <1>1, <1>2, <1>3, WithOutcomeFinite

LEMMA RetryTakesOne ==
    ASSUME TypeOK, NEW v \in Ids, RetryFailed(v)
    PROVE  OutcomeCount' + spent'["retry"] = OutcomeCount + spent["retry"]
<1>1. WithOutcome' = WithOutcome \ {v} /\ v \in WithOutcome
    BY DEF RetryFailed, TypeOK, WithOutcome, Outcomes
<1>2. Cardinality(WithOutcome \ {v}) = Cardinality(WithOutcome) - 1
    BY <1>1, WithOutcomeFinite, FS_RemoveElement
<1>3. OutcomeCount' = Cardinality(WithOutcome')
    BY DEF OutcomeCount, WithOutcome
<1>4. spent["retry"] \in Nat /\ spent'["retry"] = spent["retry"] + 1
    BY DEF RetryFailed, Spend, TypeOK, Kinds
<1> QED BY <1>1, <1>2, <1>3, <1>4, WithOutcomeFinite

\* A step that changes no outcome, and the retries at most upwards.
LEMMA SameOutcomes ==
    ASSUME TypeOK, WithOutcome' = WithOutcome,
           spent' = spent \/ \E k \in Kinds : Spend(k)
    PROVE  /\ OutcomeCount' = OutcomeCount /\ OutcomeCount \in Nat
           /\ spent["retry"] \in Nat /\ spent'["retry"] \in Nat
           /\ spent'["retry"] >= spent["retry"]
<1>1. OutcomeCount' = OutcomeCount /\ OutcomeCount \in Nat
    BY WithOutcomeFinite DEF OutcomeCount, WithOutcome
<1>2. spent["retry"] \in Nat
    BY DEF TypeOK, Kinds
<1>3. spent'["retry"] = spent["retry"] \/ spent'["retry"] = spent["retry"] + 1
    BY DEF TypeOK, Kinds, Spend
<1> QED BY <1>1, <1>2, <1>3

LEMMA NextCount ==
    ASSUME CountInv, [Next]_vars
    PROVE  CountInv'
<1>0. TypeInv /\ TypeOK /\ TypeInv' /\ done \in Nat /\ counted \in Nat
    BY NextType DEF CountInv, TypeInv, TypeOK
<1> USE DEF Uncounted
<1>1. ASSUME UNCHANGED vars PROVE CountInv'
    BY <1>0, <1>1 DEF CountInv, vars, videoVars, accountVars, runVars, OutcomeCount
<1>2. ASSUME Publish \/ QueueBackfill \/ CancelBackfill \/ Collect PROVE CountInv'
    <2>1. /\ UNCHANGED <<row, done>> /\ UNCHANGED runVars
          /\ spent' = spent \/ Spend("cmd")
        BY <1>2 DEF Publish, QueueBackfill, CancelBackfill, Collect, videoVars, accountVars
    <2>2. WithOutcome' = WithOutcome
        BY <2>1 DEF WithOutcome
    <2>3. spent' = spent \/ \E k \in Kinds : Spend(k)
        BY <2>1 DEF Kinds
    <2> QED BY <1>0, <2>1, <2>2, <2>3, SameOutcomes DEF CountInv, runVars
<1>3. ASSUME NEW v \in Ids, RetryFailed(v) PROVE CountInv'
    <2>1. UNCHANGED runVars /\ done' = done /\ row' = [row EXCEPT ![v] = "pending"]
        BY <1>3 DEF RetryFailed, accountVars
    <2>2. pc' = "download" => row'[next'] \notin Outcomes
        BY <1>0, <2>1 DEF CountInv, runVars, TypeOK, Outcomes
    <2>3. OutcomeCount' + spent'["retry"] = OutcomeCount + spent["retry"]
        BY <1>0, <1>3, RetryTakesOne
    <2> QED BY <1>0, <2>1, <2>2, <2>3 DEF CountInv, runVars
<1>4. ASSUME Handled \/ Failed \/ AuthFailed PROVE CountInv'
    <2>1. PICK s \in Outcomes : row' = [row EXCEPT ![next] = s]
        BY <1>4 DEF Handled, Failed, AuthFailed, Outcome, Outcomes
    <2>2. /\ pc = "download" /\ pc' \in {"progress", "trip"}
          /\ done' = done /\ counted' = counted /\ spent' = spent
        BY <1>4 DEF Handled, Failed, AuthFailed, Outcome, accountVars
    <2>3. next \in Ids
        BY <1>0, <2>2, EntryAtHand DEF TypeInv, AtEntry
    <2>4. OutcomeCount' = OutcomeCount + 1
        BY <1>0, <2>1, <2>2, <2>3, OutcomeAdds DEF CountInv
    <2>5. OutcomeCount \in Nat /\ spent["retry"] \in Nat
        BY <1>0, WithOutcomeFinite DEF TypeOK, Kinds
    <2> QED BY <1>0, <2>2, <2>4, <2>5 DEF CountInv
<1>5. ASSUME RunStep, ~(Handled \/ Failed \/ AuthFailed) PROVE CountInv'
    <2>1. WithOutcome' = WithOutcome
        <3>1. CASE TakeVideo
            BY <1>0, <3>1 DEF TakeVideo, WithOutcome, TypeOK, Outcomes
        <3>2. CASE ~TakeVideo
            <4>1. row' = row
                BY <1>5, <3>2
                DEF RunStep, videoVars, Start, ListFeed, PersistTotal, LeaveLoop, SeeCancel,
                    PauseForNetwork, PersistProgress, PauseForBreaker, Finish, Interrupt
            <4> QED BY <4>1 DEF WithOutcome
        <3> QED BY <3>1, <3>2
    <2>2. spent' = spent \/ \E k \in Kinds : Spend(k)
        <3>1. spent' = spent \/ Spend("outage") \/ Spend("stop")
            BY <1>5
            DEF RunStep, Start, ListFeed, PersistTotal, LeaveLoop, SeeCancel, PauseForNetwork,
                TakeVideo, PersistProgress, PauseForBreaker, Finish, Interrupt
        <3> QED BY <3>1 DEF Kinds
    <2>3. /\ OutcomeCount' = OutcomeCount /\ OutcomeCount \in Nat
          /\ spent["retry"] \in Nat /\ spent'["retry"] \in Nat
          /\ spent'["retry"] >= spent["retry"]
        BY <1>0, <2>1, <2>2, SameOutcomes
    <2>4. CASE PersistProgress /\ StillBackfilling
        <3>1. /\ pc = "progress" /\ pc' = "loop" /\ done' = NewDone /\ counted' = NewDone
            BY <2>4 DEF PersistProgress
        <3> QED BY <1>0, <2>3, <3>1 DEF CountInv, NewDone
    <2>5. CASE PersistTotal /\ StillBackfilling
        <3>1. pc' = "loop" /\ done' = done /\ counted' = done
            BY <2>5 DEF PersistTotal
        <3> QED BY <1>0, <2>3, <3>1 DEF CountInv
    <2>6. CASE TakeVideo
        <3>1. /\ pc = "loop" /\ pc' \in {"progress", "download"} /\ done' = done
              /\ counted' = counted /\ next' = next /\ next # 0
              /\ pc' = "progress" => ~fresh'
              /\ pc' = "download" => row[next] \notin Outcomes
              /\ row' = [row EXCEPT ![next] = IF @ = "none" THEN "pending" ELSE @]
            BY <2>6 DEF TakeVideo, accountVars
        <3>2. next \in Ids
            BY <1>0, <3>1, EntryAtHand
        <3>3. pc' = "download" => row'[next'] \notin Outcomes
            BY <1>0, <3>1, <3>2 DEF TypeOK, Outcomes
        <3> QED BY <1>0, <2>3, <3>1, <3>3 DEF CountInv
    <2>7. CASE /\ ~TakeVideo /\ ~(StillBackfilling /\ (PersistTotal \/ PersistProgress))
        <3>1. /\ done' = done
              /\ \/ pc' \in {"idle", "list", "total"}
                 \/ /\ pc = "loop" /\ pc' \in {"loop", "finish"}
                    /\ counted' = counted
            BY <1>5, <2>7
            DEF RunStep, accountVars, Start, ListFeed, PersistTotal, LeaveLoop, SeeCancel,
                PauseForNetwork, PersistProgress, PauseForBreaker, Finish, Interrupt, End
        <3> QED BY <1>0, <2>3, <3>1 DEF CountInv
    <2> QED BY <1>5, <2>4, <2>5, <2>6, <2>7
<1> QED BY <1>1, <1>2, <1>3, <1>4, <1>5 DEF Next

\* The progress of an account never exceeds the videos that have an outcome
\* and those retry-failed has reset: a resumed or repeated walk over what is
\* terminal counts nothing twice (new_transition in _get_or_create_pending_video
\* and the counters of _persist_progress).
THEOREM ProgressIsEarned == Spec => []DoneWithinOutcomes
<1>1. Init => CountInv
    <2>1. SUFFICES ASSUME Init PROVE CountInv
        OBVIOUS
    <2>2. done = 0 /\ pc = "idle" /\ OutcomeCount \in Nat /\ spent["retry"] = 0
        BY <2>1, WithOutcomeFinite DEF Init, Kinds
    <2> QED BY <2>1, <2>2, InitType DEF CountInv, Uncounted
<1>2. CountInv /\ [Next]_vars => CountInv'
    BY NextCount
<1>3. CountInv => DoneWithinOutcomes
    BY DEF CountInv, DoneWithinOutcomes
<1> QED BY <1>1, <1>2, <1>3, PTL DEF Spec

-------------------------------------------------------------------------------
(* The breaker.                                                            *)

Definitive == {v \in Ids : row[v] = "failed" /\ category[v] = "definitive"}

\* Each failure that counts is of a video of its own, which no retry selects.
StreakInv ==
    /\ streak <= Cardinality(Definitive)
    /\ pc = "trip" => streak >= Threshold
    /\ pc = "progress" /\ fresh /\ streak > 0 => next \in Definitive

LEMMA VideosFinite ==
    ASSUME NEW D \in SUBSET Ids
    PROVE  IsFiniteSet(D) /\ Cardinality(D) \in Nat
<1>1. IsFiniteSet(Ids)
    BY FS_Interval, Constants DEF Ids
<1> QED BY <1>1, FS_Subset, FS_CardinalityType

\* A step that is no outcome changes no definitive failure, and the count only
\* to start over.
LEMMA StreakElsewhere ==
    ASSUME CountInv, StreakInv, Definitive' = Definitive, streak' \in {0, streak},
           \/ streak' = streak /\ pc' = pc /\ fresh' = fresh /\ next' = next
           \/ pc' \notin {"progress", "trip"}
           \/ pc' = "progress" /\ ~fresh'
    PROVE  StreakInv'
<1>1. Definitive \in SUBSET Ids
    BY DEF Definitive
<1>2. Cardinality(Definitive) \in Nat /\ streak \in Nat
    BY <1>1, VideosFinite DEF CountInv, TypeInv, TypeOK
<1>3. Cardinality(Definitive') = Cardinality(Definitive)
    OBVIOUS
<1> HIDE DEF Definitive
<1> QED BY <1>2, <1>3 DEF StreakInv

LEMMA NextStreak ==
    ASSUME CountInv, StreakInv, [Next]_vars
    PROVE  StreakInv'
<1>0. TypeOK /\ AtEntry
    BY DEF CountInv, TypeInv
<1>1. ASSUME UNCHANGED vars PROVE StreakInv'
    <2>1. Definitive' = Definitive /\ streak' = streak /\ pc' = pc /\ fresh' = fresh /\ next' = next
        BY <1>1 DEF vars, videoVars, runVars, Definitive
    <2> QED BY <2>1, StreakElsewhere
<1>2. ASSUME Publish \/ QueueBackfill \/ CancelBackfill \/ Collect PROVE StreakInv'
    <2>1. row' = row /\ category' = category /\ streak' = streak /\ pc' = pc /\ fresh' = fresh /\ next' = next
        BY <1>2 DEF Publish, QueueBackfill, CancelBackfill, Collect, videoVars, runVars
    <2>2. Definitive' = Definitive
        BY <2>1 DEF Definitive
    <2> QED BY <2>1, <2>2, StreakElsewhere
<1>3. ASSUME NEW v \in Ids, RetryFailed(v) PROVE StreakInv'
    <2>1. /\ category' = category /\ streak' = streak /\ pc' = pc /\ fresh' = fresh /\ next' = next
          /\ row' = [row EXCEPT ![v] = "pending"] /\ category[v] # "definitive"
        BY <1>3 DEF RetryFailed, runVars
    <2>2. Definitive' = Definitive
        BY <1>0, <2>1 DEF Definitive, TypeOK
    <2> QED BY <2>1, <2>2, StreakElsewhere
<1>4. ASSUME Handled \/ Failed PROVE StreakInv'
    <2>1. pc' = "progress" /\ streak' = 0
        BY <1>4 DEF Handled, Failed
    <2>2. Definitive' \in SUBSET Ids
        BY DEF Definitive
    <2>3. Cardinality(Definitive') \in Nat
        BY <2>2, VideosFinite
    <2> QED BY <2>1, <2>3 DEF StreakInv
<1>5. ASSUME AuthFailed PROVE StreakInv'
    <2>1. /\ pc = "download" /\ row' = [row EXCEPT ![next] = "failed"]
          /\ category' = [category EXCEPT ![next] = "definitive"] /\ next' = next
          /\ streak' = streak + 1
          /\ pc' = IF streak + 1 >= Threshold THEN "trip" ELSE "progress"
        BY <1>5 DEF AuthFailed, Outcome
    <2>2. next \in Ids /\ row[next] \notin Outcomes
        BY <1>0, <2>1, EntryAtHand DEF CountInv, AtEntry
    <2>3. Definitive' = Definitive \cup {next} /\ next \notin Definitive
        BY <1>0, <2>1, <2>2 DEF Definitive, TypeOK, Outcomes
    <2>4. Definitive \in SUBSET Ids
        BY DEF Definitive
    <2>5. /\ Cardinality(Definitive \cup {next}) = Cardinality(Definitive) + 1
          /\ Cardinality(Definitive) \in Nat
        BY <2>3, <2>4, VideosFinite, FS_AddElement
    <2>6. streak \in Nat /\ Threshold \in Nat
        BY <1>0, Constants DEF TypeOK
    <2>7. streak' <= Cardinality(Definitive')
        BY <2>1, <2>3, <2>5, <2>6 DEF StreakInv
    <2>8. next' \in Definitive'
        BY <2>1, <2>3
    <2>9. pc' = "trip" => streak' >= Threshold
        BY <2>1, <2>6
    <2> QED BY <2>7, <2>8, <2>9 DEF StreakInv
<1>6. ASSUME RunStep, ~(Handled \/ Failed \/ AuthFailed) PROVE StreakInv'
    <2>1. streak' \in {0, streak}
        BY <1>6
        DEF RunStep, Start, ListFeed, PersistTotal, LeaveLoop, SeeCancel, PauseForNetwork,
            TakeVideo, PersistProgress, PauseForBreaker, Finish, Interrupt
    <2>2. Definitive' = Definitive
        <3>1. CASE TakeVideo
            BY <1>0, <3>1 DEF TakeVideo, Definitive, TypeOK
        <3>2. CASE ~TakeVideo
            <4>1. row' = row /\ category' = category
                BY <1>6, <3>2
                DEF RunStep, videoVars, Start, ListFeed, PersistTotal, LeaveLoop, SeeCancel,
                    PauseForNetwork, PersistProgress, PauseForBreaker, Finish, Interrupt
            <4> QED BY <4>1 DEF Definitive
        <3> QED BY <3>1, <3>2
    <2>3. pc' \notin {"progress", "trip"} \/ (pc' = "progress" /\ ~fresh')
        BY <1>0, <1>6
        DEF RunStep, Start, ListFeed, PersistTotal, LeaveLoop, SeeCancel, PauseForNetwork,
            TakeVideo, PersistProgress, PauseForBreaker, Finish, Interrupt, End, TypeOK
    <2> QED BY <2>1, <2>2, <2>3, StreakElsewhere
<1> QED BY <1>1, <1>2, <1>3, <1>4, <1>5, <1>6 DEF Next

\* The breaker counts failures in a row and nothing else, and when it trips, as
\* many different videos as its threshold says have failed for good: neither a
\* resumed walk nor a retry makes it count one video twice (BackfillBreaker.record
\* and reset).
THEOREM StreaksAreEarned == Spec => []StreakIsConsecutive
<1>1. Init => CountInv /\ StreakInv
    <2>1. SUFFICES ASSUME Init PROVE CountInv /\ StreakInv
        OBVIOUS
    <2>2. /\ done = 0 /\ pc = "idle" /\ streak = 0
          /\ OutcomeCount \in Nat /\ spent["retry"] = 0
        BY <2>1, WithOutcomeFinite DEF Init, Kinds
    <2>3. Definitive \in SUBSET Ids
        BY DEF Definitive
    <2>4. Cardinality(Definitive) \in Nat
        BY <2>3, VideosFinite
    <2> QED BY <2>1, <2>2, <2>4, InitType DEF CountInv, Uncounted, StreakInv
<1>2. CountInv /\ StreakInv /\ [Next]_vars => CountInv' /\ StreakInv'
    BY NextCount, NextStreak
<1>3. CountInv /\ StreakInv => StreakIsConsecutive
    <2>1. SUFFICES ASSUME CountInv, StreakInv PROVE StreakIsConsecutive
        OBVIOUS
    <2>2. Definitive \in SUBSET Ids
        BY DEF Definitive
    <2>3. Cardinality(Definitive) \in Nat /\ streak \in Nat /\ Threshold \in Nat
        BY <2>1, <2>2, VideosFinite, Constants DEF CountInv, TypeInv, TypeOK
    <2>4. pc = "trip" => Cardinality(Definitive) >= Threshold
        BY <2>1, <2>3 DEF StreakInv
    <2>5. Definitive = {v \in Ids : row[v] = "failed" /\ category[v] = "definitive"}
        BY DEF Definitive
    <2>6. pc = "progress" /\ fresh /\ streak > 0 =>
              row[next] = "failed" /\ category[next] = "definitive"
        BY <2>1 DEF StreakInv, Definitive
    <2> QED BY <2>4, <2>5, <2>6 DEF StreakIsConsecutive
<1> QED BY <1>1, <1>2, <1>3, PTL DEF Spec
=============================================================================
