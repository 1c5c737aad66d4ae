---------------------------- MODULE BackfillFeed ----------------------------
(***************************************************************************)
(* One account's walk of its feed: the loop of run_backfill with the       *)
(* cursor, the progress counters, the rows of videos and the auth breaker  *)
(* (src/tikdown_rs/services/backfill.py), and the retry-failed command of  *)
(* services/backfill_ops.py.                                               *)
(*                                                                         *)
(* At most one run walks the feed at a time (Backfill!SlotExclusion), so   *)
(* the run is a single process here.  Videos are numbered in the order of  *)
(* their publication and a listing returns them newest first.  A restart   *)
(* of the process is part of the step that interrupts the run.             *)
(*                                                                         *)
(* Abstracted: pacing, files, the archive, events; the monitor, which may  *)
(* add and download rows of the same account; runs of another process,     *)
(* whose breaker counts on its own.                                        *)
(***************************************************************************)
EXTENDS Naturals, FiniteSets

CONSTANTS
    MaxVideos,  \* bound: videos ever published
    Day,        \* upload_date of each video, 0 if the listing has none
    Threshold,  \* BackfillBreaker.threshold, 5 in the code
    Limit       \* bounds: how often each kind of outside event happens

Ids == 1..MaxVideos
Kinds == {"cmd", "retry", "outage", "stop"}

\* A feed is newest first: dates do not decrease with publication.
ASSUME FeedAssumption ==
    /\ MaxVideos \in Nat
    /\ Day \in [Ids -> Nat]
    /\ \A v, w \in Ids : v < w /\ Day[v] # 0 /\ Day[w] # 0 => Day[v] <= Day[w]
    /\ Threshold \in Nat \ {0}
    /\ Limit \in [Kinds -> Nat]

VARIABLES
    published,  \* videos 1..published are on the account's page
    row,        \* videos.status, "none" before the row exists
    category,   \* videos.error_category, "none" for NULL
    status,     \* monitored_accounts.backfill_status
    review,     \* needs_review
    cursor,     \* backfill_cursor, 0 for NULL
    total,      \* backfill_total
    done,       \* backfill_done
    streak,     \* consecutive_auth_failures of the process' breaker
    pc,         \* where the run is
    listed,     \* entries of its listing: listed, ..., 1
    next,       \* the entry the loop is at, 0 past the end
    scope,      \* scope_cursor, the snapshot of the cursor
    moving,     \* moving_cursor
    counted,    \* the local done
    fresh,      \* new_transition of the entry at hand
    spent       \* outside events so far, bounded by Limit

videoVars   == <<row, category>>
accountVars == <<status, review, cursor, total, done>>
runVars     == <<pc, listed, next, scope, moving, counted, fresh>>
vars == <<published, videoVars, accountVars, streak, runVars, spent>>

Outcomes == {"downloaded", "skipped", "failed"}     \* _TERMINAL_VIDEO_STATUSES
Categories == {"none", "transient", "definitive", "integrity"}
Statuses == {"idle", "queued", "backfilling", "paused", "completed", "cancelled"}
Places == {"idle", "list", "total", "loop", "download", "progress", "trip", "finish"}

Days == {Day[v] : v \in Ids} \cup {0}

TypeOK ==
    /\ published \in 0..MaxVideos
    /\ row \in [Ids -> Outcomes \cup {"none", "pending"}]
    /\ category \in [Ids -> Categories]
    /\ status \in Statuses
    /\ review \in BOOLEAN
    /\ cursor \in Days
    /\ total \in 0..MaxVideos
    /\ done \in Nat
    /\ streak \in Nat
    /\ pc \in Places
    /\ listed \in 0..published
    /\ next \in 0..listed
    /\ scope \in Days
    /\ moving \in Days
    /\ counted \in Nat
    /\ fresh \in BOOLEAN
    /\ spent \in [Kinds -> Nat]

Init ==
    /\ published = 0
    /\ row = [v \in Ids |-> "none"]
    /\ category = [v \in Ids |-> "none"]
    /\ status = "idle"
    /\ review = FALSE
    /\ cursor = 0 /\ total = 0 /\ done = 0
    /\ streak = 0
    /\ pc = "idle"
    /\ listed = 0 /\ next = 0
    /\ scope = 0 /\ moving = 0 /\ counted = 0
    /\ fresh = FALSE
    /\ spent = [k \in Kinds |-> 0]

Spend(k) ==
    /\ spent[k] < Limit[k]
    /\ spent' = [spent EXCEPT ![k] = @ + 1]

-------------------------------------------------------------------------------
(* The outside: the account's page and the operator.                       *)

\* external: a new video appears on the page.
Publish ==
    /\ published < MaxVideos
    /\ published' = published + 1
    /\ UNCHANGED <<videoVars, accountVars, streak, runVars, spent>>

\* queue_backfill (the race of its two transactions is in Backfill).
QueueBackfill ==
    /\ status \notin {"queued", "backfilling"} /\ Spend("cmd")
    /\ status' = "queued"
    /\ UNCHANGED <<published, videoVars, review, cursor, total, done, streak, runVars>>

\* cancel_backfill.
CancelBackfill ==
    /\ status # "completed" /\ Spend("cmd")
    /\ status' = "cancelled"
    /\ UNCHANGED <<published, videoVars, review, cursor, total, done, streak, runVars>>

\* collect_queued_backfills resumes a pause that needs no review.
Collect ==
    /\ status = "paused" /\ ~review
    /\ status' = "queued"
    /\ UNCHANGED <<published, videoVars, review, cursor, total, done, streak, runVars, spent>>

\* retry_failed, one row at a time: the category is kept.
RetryFailed(v) ==
    /\ row[v] = "failed" /\ category[v] \in {"transient", "integrity"} /\ Spend("retry")
    /\ row' = [row EXCEPT ![v] = "pending"]
    /\ UNCHANGED <<published, category, accountVars, streak, runVars>>

-------------------------------------------------------------------------------
(* The run.                                                                *)

\* UPDATE ... WHERE backfill_status = 'backfilling': rowcount = 1.
StillBackfilling == status = "backfilling"

\* The run is over; its locals are gone.
End ==
    /\ pc' = "idle"
    /\ listed' = 0 /\ next' = 0
    /\ scope' = 0 /\ moving' = 0 /\ counted' = 0
    /\ fresh' = FALSE

\* Gates passed and _mark_backfilling.
Start ==
    /\ pc = "idle" /\ status = "queued"
    /\ status' = "backfilling"
    /\ pc' = "list"
    /\ UNCHANGED <<published, videoVars, review, cursor, total, done, streak, listed,
                   next, scope, moving, counted, fresh, spent>>

\* engine.list_videos.
ListFeed ==
    /\ pc = "list"
    /\ listed' = published /\ next' = published
    /\ pc' = "total"
    /\ UNCHANGED <<published, videoVars, accountVars, streak, scope, moving, counted,
                   fresh, spent>>

\* _persist_total, then the snapshot of the row.
PersistTotal ==
    /\ pc = "total"
    /\ \/ /\ StillBackfilling
          /\ total' = listed
          /\ scope' = cursor /\ moving' = cursor /\ counted' = done
          /\ pc' = "loop"
          /\ UNCHANGED <<listed, next, fresh>>
       \/ /\ ~StillBackfilling
          /\ End
          /\ UNCHANGED total
    /\ UNCHANGED <<published, videoVars, status, review, cursor, done, streak, spent>>

\* Mutant (T-BACKFILL-2): the boundary is the moving cursor.
PastCursorMoving(v) == Day[v] # 0 /\ moving # 0 /\ Day[v] < moving

\* The boundary of the walk: strictly older than the snapshot of the cursor.
PastCursor(v) == Day[v] # 0 /\ scope # 0 /\ Day[v] < scope

\* The head of the loop finds the feed exhausted or the boundary reached.
LeaveLoop ==
    /\ pc = "loop"
    /\ \/ next = 0
       \/ next # 0 /\ status # "cancelled" /\ PastCursor(next)
    /\ pc' = "finish"
    /\ UNCHANGED <<published, videoVars, accountVars, streak, listed, next, scope, moving,
                   counted, fresh, spent>>

\* It re-reads the row and finds a cancel.
SeeCancel ==
    /\ pc = "loop" /\ next # 0 /\ status = "cancelled"
    /\ End
    /\ UNCHANGED <<published, videoVars, accountVars, streak, spent>>

\* Mutant: the outage burns the entry it was noticed at.
PauseForNetworkBurns ==
    /\ pc = "loop" /\ next # 0 /\ StillBackfilling /\ Spend("outage")
    /\ status' = "paused"
    /\ cursor' = IF Day[next] # 0 THEN Day[next] ELSE cursor
    /\ End
    /\ UNCHANGED <<published, videoVars, review, total, done, streak>>

\* It finds the network down: _pause_for_network, before any work.
PauseForNetwork ==
    /\ pc = "loop" /\ next # 0 /\ status # "cancelled" /\ Spend("outage")
    /\ \/ StillBackfilling /\ status' = "paused" /\ End
       \/ /\ ~StillBackfilling /\ UNCHANGED status
          /\ next' = next - 1
          /\ UNCHANGED <<pc, listed, scope, moving, counted, fresh>>
    /\ UNCHANGED <<published, videoVars, review, cursor, total, done, streak>>

\* _get_or_create_pending_video: a terminal row is walked over.
TakeVideo ==
    /\ pc = "loop" /\ next # 0 /\ status # "cancelled" /\ ~PastCursor(next)
    /\ row' = [row EXCEPT ![next] = IF @ = "none" THEN "pending" ELSE @]
    /\ fresh' = (row[next] \notin Outcomes)
    /\ pc' = IF row[next] \in Outcomes THEN "progress" ELSE "download"
    /\ UNCHANGED <<published, category, accountVars, streak, listed, next, scope, moving,
                   counted, spent>>

\* The terminal state of the entry at hand (_persist_terminal).
Outcome(s, c) ==
    /\ pc = "download"
    /\ row' = [row EXCEPT ![next] = s]
    /\ category' = [category EXCEPT ![next] = c]
    /\ UNCHANGED <<published, accountVars, listed, next, scope, moving, counted, fresh, spent>>

\* handle_download_result returns: downloaded, an expected slideshow, or an
\* integrity failure, which raises nothing either; the breaker is reset.
Handled ==
    /\ \/ Outcome("downloaded", "none") \/ Outcome("skipped", "none")
       \/ Outcome("failed", "integrity")
    /\ pc' = "progress"
    /\ streak' = 0

\* The download raises and persist_download_failure classifies it; an error
\* that is not an auth one resets the streak.
Failed ==
    /\ \/ Outcome("failed", "transient") \/ Outcome("failed", "definitive")
       \/ Outcome("failed", "none")
    /\ pc' = "progress"
    /\ streak' = 0

\* A definitive failure with an auth marker counts, and may trip the breaker.
AuthFailed ==
    /\ Outcome("failed", "definitive")
    /\ streak' = streak + 1
    /\ pc' = IF streak + 1 >= Threshold THEN "trip" ELSE "progress"

\* The cursor and the counter after the entry at hand; an undated entry keeps
\* the cursor, a row that was terminal before is not counted again.
NewCursor == IF Day[next] # 0 THEN Day[next] ELSE moving

\* Mutant (B6): every entry walked over counts as done.
NewDoneAlways == counted + 1

NewDone == IF fresh THEN counted + 1 ELSE counted

\* _persist_progress; rowcount 0 means a concurrent cancel won.
PersistProgress ==
    /\ pc = "progress"
    /\ \/ /\ StillBackfilling
          /\ cursor' = NewCursor /\ moving' = NewCursor
          /\ done' = NewDone /\ counted' = NewDone
          /\ next' = next - 1
          /\ pc' = "loop"
          /\ UNCHANGED <<listed, scope, fresh>>
       \/ /\ ~StillBackfilling
          /\ End
          /\ UNCHANGED <<cursor, done>>
    /\ UNCHANGED <<published, videoVars, status, review, total, streak, spent>>

\* _pause_for_breaker: the entry at hand is neither counted nor passed.
PauseForBreaker ==
    /\ pc = "trip"
    /\ \/ StillBackfilling /\ status' = "paused" /\ review' = TRUE
       \/ ~StillBackfilling /\ UNCHANGED <<status, review>>
    /\ End
    /\ UNCHANGED <<published, videoVars, cursor, total, done, streak, spent>>

\* _finalize_backfill.
Finish ==
    /\ pc = "finish"
    /\ status' = IF StillBackfilling THEN "completed" ELSE status
    /\ End
    /\ UNCHANGED <<published, videoVars, review, cursor, total, done, streak, spent>>

\* The run ends where it is and its row is unwedged: a failing listing or
\* statement (the process lives on), or a stop or a crash with the restart's
\* reconciliation (the breaker starts over); a stop may have a cause to pause.
Interrupt ==
    /\ pc # "idle"
    /\ \/ Spend("stop") /\ UNCHANGED streak
          /\ status' = IF StillBackfilling THEN "queued" ELSE status
       \/ Spend("stop") /\ streak' = 0
          /\ \E s \in {"queued", "paused"} : status' = IF StillBackfilling THEN s ELSE status
    /\ End
    /\ UNCHANGED <<published, videoVars, review, cursor, total, done>>

-------------------------------------------------------------------------------

RunStep ==
    \/ Start \/ ListFeed \/ PersistTotal \/ LeaveLoop \/ SeeCancel \/ PauseForNetwork
    \/ TakeVideo \/ Handled \/ Failed \/ AuthFailed
    \/ PersistProgress \/ PauseForBreaker \/ Finish \/ Interrupt

Next ==
    \/ Publish \/ QueueBackfill \/ CancelBackfill \/ Collect
    \/ \E v \in Ids : RetryFailed(v)
    \/ RunStep

Spec == Init /\ [][Next]_vars

-------------------------------------------------------------------------------
(* Safety.                                                                 *)

\* A terminal row, or one that was terminal until retry-failed reset it.
Settled(v) == row[v] \in Outcomes \/ category[v] # "none"

OutcomeCount == Cardinality({v \in Ids : row[v] \in Outcomes})

\* T-BACKFILL-2, B6: a run that completes has brought every entry it listed to
\* an outcome, up to the first entry strictly older than the cursor it started
\* from, whatever was published, cancelled, retried or interrupted meanwhile.
CompletionCovers ==
    [][status # "completed" /\ status' = "completed" =>
          \A v \in 1..listed :
              \/ Settled(v)
              \/ \E w \in v..listed : Day[w] # 0 /\ Day[w] < scope]_vars

\* 9.3, B6: progress is never inflated by walking over terminal rows again: each
\* counted unit is a terminal video, or one that retry-failed has reset since.
DoneWithinOutcomes == done <= OutcomeCount + spent["retry"]

\* 9.6, T-BACKFILL-22: the breaker's count is of failures in a row (the entry
\* just handled is one of them), and it trips on as many definitive failures
\* of different videos as its threshold says.
StreakIsConsecutive ==
    /\ pc = "progress" /\ fresh /\ streak > 0 =>
          row[next] = "failed" /\ category[next] = "definitive"
    /\ pc = "trip" =>
          Cardinality({v \in Ids : row[v] = "failed" /\ category[v] = "definitive"}) >= Threshold

\* 9.2: the persisted cursor is the date of a video with an outcome; outages,
\* cancels, breaker pauses and crashes never move it to an entry not handled.
CursorOnOutcome == cursor # 0 => \E v \in Ids : Day[v] = cursor /\ Settled(v)

-------------------------------------------------------------------------------
(* What the documentation says and the code does not do.                   *)

\* README: a full history in a resumable run that survives crashes and outages.
ResumeCovers ==
    [][status # "completed" /\ status' = "completed" => \A v \in 1..listed : Settled(v)]_vars

\* Plan 9.3: backfill_done counts every video in a terminal state.
DoneCountsOutcomes == status = "completed" => done >= OutcomeCount
=============================================================================
