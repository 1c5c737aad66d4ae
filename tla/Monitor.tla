------------------------------ MODULE Monitor -------------------------------
(***************************************************************************)
(* The monitor of the accounts: the cycle that lists their feeds and       *)
(* downloads what is pending (services/monitor.py), launched by the        *)
(* heartbeat job, the refresh of the profiles (services/maintenance.py),   *)
(* and the commands that change accounts meanwhile (services/accounts.py). *)
(* It runs under the guards (Guards), with an engine that the jobs build   *)
(* from the stored cookies (Cookies).                                      *)
(*                                                                         *)
(* Every transaction is a step of its own, and so is every call that       *)
(* leaves the event loop: between any two of them anything may change.     *)
(* The cycle keeps an account by its username and reads its id anew, a     *)
(* listing and the refresh keep the id; like the ids of cookies, those of  *)
(* accounts are given out again (no AUTOINCREMENT).                        *)
(***************************************************************************)
EXTENDS Cookies, Guards

CONSTANTS
    Accounts,  \* usernames
    Videos,    \* numbered in the order they are published
    Author,    \* whose they are
    Window,    \* max_entries of a listing
    Broken,    \* usernames whose pages never load
    Kinds, Limit  \* kinds of outside events, how often each may happen (bounds)

ASSUME MonitorAssumption ==
    /\ IsFiniteSet(Accounts)
    /\ IsFiniteSet(Videos) /\ Videos \subseteq Nat
    /\ Author \in [Videos -> Accounts] /\ Window \in Nat \ {0} /\ Broken \subseteq Accounts
    /\ Jobs = {"heartbeat", "collect", "validate", "refresh"}
    /\ Kinds = {"monitor", "account", "listing", "enospc", "other", "resume"}
    /\ Limit \in [Kinds -> Nat]

VARIABLES
    accounts,   \* the rows of the accounts: id -> username, mode, flags, last_check_at
    owners,     \* history: <<id, username>> of every account there was
    rows,       \* the videos with a row: its account's id and its status
    published,  \* videos their authors have published
    monitor,    \* daemon_state.monitor_running
    cycle,      \* the running cycle
    refresh,    \* the profile refresh: accounts to go, and whether it awaits a page
    refreshed,  \* <<id, username>> if its page was lately written into that row
    removing,   \* ids of the accounts whose removal has counted no videos
    spent

accountVars == <<accounts, owners, removing>>
videoVars == <<rows, published>>
refreshVars == <<refresh, refreshed>>
monitorVars == <<accountVars, videoVars, refreshVars, monitor, cycle, spent>>
vars == <<cookieVars, guardVars, monitorVars>>

NoCycle == [pc |-> "off", engine |-> Nothing, todo |-> <<>>, account |-> NoId, entries |-> {},
            listed |-> {}, pending |-> {}]
NoRefresh == [pc |-> "off", todo |-> <<>>]
Spend(k) == spent[k] < Limit[k] /\ spent' = [spent EXCEPT ![k] = @ + 1]

\* _get_account: usernames are unique.
Named(a) == {i \in DOMAIN accounts : accounts[i].name = a}
Gone(a) == Named(a) = {}
IdOf(a) == CHOOSE i \in DOMAIN accounts : accounts[i].name = a

\* The id was given to accounts of two names.
Shared(i) == \E p, q \in owners : p[1] = i /\ q[1] = i /\ p[2] # q[2]

RowsOf(i) == {v \in DOMAIN rows : rows[v].account = i}
Pending(i) == [account |-> i, status |-> "pending"]

NewAccount(a, mode) ==
    [name |-> a, mode |-> mode, paused |-> FALSE, review |-> FALSE, check |-> "never"]

Init ==
    /\ CookiesInit /\ GuardsInit
    /\ \E n \in 0..Cardinality(Accounts) : \E names \in [1..n -> Accounts] :
           /\ IsInjective(names)
           /\ accounts = [i \in 1..n |-> NewAccount(names[i], "monitor")]
           /\ owners = {<<i, names[i]>> : i \in 1..n}
    /\ rows = <<>> /\ published = {} /\ monitor = FALSE
    /\ cycle = NoCycle /\ refresh = NoRefresh /\ refreshed = {} /\ removing = {}
    /\ spent = [k \in Kinds |-> 0]

(***************************************************************************)
(* ensure_engine in the jobs; what follows in the same step of the loop.   *)
(***************************************************************************)
KeepButCycle == UNCHANGED <<accountVars, videoVars, refreshVars, monitor>>
KeepAll == UNCHANGED <<monitorVars, guardVars>>

EnsureBegins(j) ==
    /\ j = "heartbeat" => monitor
    /\ j = "validate" => val[j].pc = "idle"
    /\ j = "refresh" => refresh.pc = "off"
    /\ EnsureReads(j) /\ KeepAll

KeepButEngine == KeepStore /\ KeepTikTok /\ UNCHANGED <<refused, guardVars>>

\* The heartbeat launches a cycle: an engine, none running, the interval over.
HeartbeatLaunches ==
    /\ EngineApply("heartbeat")
    /\ \/ engine' # Nothing /\ cycle.pc = "off" /\ cycle' = [NoCycle EXCEPT !.pc = "start"]
       \/ UNCHANGED cycle
    /\ KeepButCycle /\ UNCHANGED <<val, spent>> /\ KeepButEngine

\* The collector goes on with the backfills (Backfill models them).
CollectEnsured ==
    /\ EngineApply("collect")
    /\ UNCHANGED <<val, monitorVars>> /\ KeepButEngine

ValidateEnsured ==
    /\ EngineApply("validate")
    /\ IF engine' # Nothing THEN Goes("validate", "list") ELSE UNCHANGED val
    /\ UNCHANGED monitorVars /\ KeepButEngine

\* The accounts with these ids, as <<id, username>>, by id.
Targets(ids) ==
    LET order == InOrder(ids)
    IN  [k \in DOMAIN order |-> <<order[k], accounts[order[k]].name>>]

\* The refresh selects its accounts at once.
RefreshBegins ==
    /\ EngineApply("refresh")
    /\ LET chosen == {i \in DOMAIN accounts : ~accounts[i].paused}
       IN  refresh' = IF engine' # Nothing /\ chosen # {}
                      THEN [pc |-> "page", todo |-> Targets(chosen)] ELSE NoRefresh
    /\ UNCHANGED <<val, accountVars, videoVars, refreshed, monitor, cycle, spent>>
    /\ KeepButEngine

(***************************************************************************)
(* refresh_all_profiles: the page of a username goes into the row with the *)
(* id it had.  A page that does not load is skipped; a row that is gone    *)
(* when the counters are written ends the job.                             *)
(***************************************************************************)
KeepButRefresh == UNCHANGED <<cookieVars, guardVars, accountVars, videoVars, monitor, cycle,
                              spent>>
PageBroken == Head(refresh.todo)[2] \in Broken
NextProfile ==
    refresh' = IF Len(refresh.todo) = 1 THEN NoRefresh
               ELSE [pc |-> "page", todo |-> Tail(refresh.todo)]

PageLoads ==
    /\ refresh.pc = "page" /\ ~PageBroken
    /\ refresh' = [refresh EXCEPT !.pc = "write"]
    /\ UNCHANGED refreshed /\ KeepButRefresh

\* Mutant: a page that does not load ends the job.
PageFailsAll ==
    /\ refresh.pc = "page" /\ PageBroken
    /\ refresh' = NoRefresh
    /\ UNCHANGED refreshed /\ KeepButRefresh

PageFails ==
    /\ refresh.pc = "page" /\ PageBroken
    /\ NextProfile
    /\ UNCHANGED refreshed /\ KeepButRefresh

ProfileWritten ==
    /\ refresh.pc = "write"
    /\ LET target == Head(refresh.todo)
       IN  IF target[1] \notin DOMAIN accounts THEN refresh' = NoRefresh /\ UNCHANGED refreshed
           ELSE NextProfile /\ refreshed' = refreshed \cup {target}
    /\ KeepButRefresh

\* Counters grow old.
ProfileAges(a) ==
    /\ \E p \in refreshed : p[2] = a /\ refreshed' = refreshed \ {p}
    /\ UNCHANGED refresh /\ KeepButRefresh

(***************************************************************************)
(* The cycle, up to the choice of its accounts.                            *)
(***************************************************************************)
KeepCycleOnly == KeepButCycle /\ UNCHANGED <<cookieVars, guardVars, spent>>
At(pc) == cycle.pc = pc
To(pc) == cycle' = [cycle EXCEPT !.pc = pc]
KeepButFlag == UNCHANGED <<cookieVars, guardVars, accountVars, videoVars, refreshVars, spent>>

\* The task takes the engine of that moment, and keeps it.
CycleStarts ==
    /\ At("start")
    /\ cycle' = [cycle EXCEPT !.pc = "cookie", !.engine = engine]
    /\ KeepCycleOnly

CookieGate == At("cookie") /\ To(IF Working = Nothing THEN "stop" ELSE "flag") /\ KeepCycleOnly

\* The monitor is stopped for everyone.
StopForCookies ==
    /\ At("stop") /\ monitor' = FALSE /\ cycle' = NoCycle
    /\ KeepButFlag

FlagGate ==
    /\ At("flag")
    /\ IF paused \/ ~available THEN cycle' = NoCycle ELSE To("select")
    /\ KeepCycleOnly

\* The next turn, or the end of the cycle.
NextTurn(todo) ==
    cycle' = IF todo = <<>> THEN NoCycle
             ELSE [NoCycle EXCEPT !.pc = "turn", !.engine = cycle.engine, !.todo = todo]
TurnEnds == NextTurn(Tail(cycle.todo))

SelectAccounts ==
    /\ At("select")
    /\ LET chosen == {i \in DOMAIN accounts : /\ accounts[i].mode = "monitor"
                                              /\ ~accounts[i].paused /\ ~accounts[i].review}
       IN  NextTurn([k \in DOMAIN Targets(chosen) |-> Targets(chosen)[k][2]])
    /\ KeepCycleOnly

(***************************************************************************)
(* discover_new_videos, in the turn of a username.                         *)
(***************************************************************************)
Turn == Head(cycle.todo)
KeepButChecks == UNCHANGED <<cookieVars, guardVars, owners, removing, videoVars, refreshVars,
                             monitor, spent>>

\* Either way the turn goes on with the downloads.
Discovered ==
    cycle' = [NoCycle EXCEPT !.pc = "cookies left", !.engine = cycle.engine, !.todo = cycle.todo]

\* Mutant: an account never checked counts as just checked.
TurnBeginsOldOnly ==
    /\ At("turn")
    /\ IF Gone(Turn) THEN TurnEnds
       ELSE IF accounts[IdOf(Turn)].check # "old" THEN Discovered
       ELSE cycle' = [cycle EXCEPT !.pc = "listing", !.account = IdOf(Turn)]
    /\ KeepCycleOnly

\* An account that is gone breaks its turn; one just checked is not listed.
TurnBegins ==
    /\ At("turn")
    /\ IF Gone(Turn) THEN TurnEnds
       ELSE IF accounts[IdOf(Turn)].check = "fresh" THEN Discovered
       ELSE cycle' = [cycle EXCEPT !.pc = "listing", !.account = IdOf(Turn)]
    /\ KeepCycleOnly

Feed(a) ==
    LET all == {v \in published : Author[v] = a}
    IN  {v \in all : Cardinality({w \in all : w > v}) < Window}

\* The listing has a deadline and a circuit breaker.
Listing == At("listing") /\ KeepButCycle /\ UNCHANGED <<cookieVars, guardVars>>
Unreachable == Turn \in Broken \/ cycle.engine = Nothing

ListingReturns ==
    /\ Listing /\ ~Unreachable
    /\ cycle' = [cycle EXCEPT !.pc = IF Feed(Turn) = {} THEN "touch" ELSE "look",
                              !.entries = Feed(Turn), !.listed = Feed(Turn)]
    /\ UNCHANGED spent

\* "Does not have any videos": informative, and a completed check.
ListingEmpty ==
    /\ Listing /\ ~Unreachable /\ Feed(Turn) = {}
    /\ cycle' = [cycle EXCEPT !.pc = "touch", !.listed = {}]
    /\ UNCHANGED spent

\* A definitive failure: the session has ended, or the account is not there.
ListingRefused == Listing /\ ~Unreachable /\ To("review") /\ UNCHANGED spent

\* Anything else is transient, a missing engine included: no check, but the
\* account goes on with the videos it has.
ListingFails ==
    /\ Listing /\ Discovered
    /\ IF Unreachable THEN UNCHANGED spent ELSE Spend("listing")

\* What follows falls on whichever account has the id by now.
AccountLeft == cycle.account \notin DOMAIN accounts

MarkReview ==
    /\ At("review")
    /\ IF AccountLeft THEN TurnEnds /\ UNCHANGED accounts
       ELSE accounts' = [accounts EXCEPT ![cycle.account].review = TRUE] /\ Discovered
    /\ KeepButChecks

\* Entry by entry, newest first.
Newest(v) == v \in cycle.entries /\ \A w \in cycle.entries : w <= v

\* It is on to the next one, or to the end of the listing.
NextEntry(v) ==
    LET rest == cycle.entries \ {v}
    IN  cycle' = [cycle EXCEPT !.pc = IF rest = {} THEN "touch" ELSE "look", !.entries = rest]

\* Is it known?
LookUp(v) ==
    /\ At("look") /\ Newest(v)
    /\ IF v \in DOMAIN rows THEN NextEntry(v) ELSE To("insert")
    /\ KeepCycleOnly

KeepButRows == UNCHANGED <<cookieVars, guardVars, accountVars, published, refreshVars, monitor,
                           spent>>

\* Mutant: foreign keys are not enforced.
InsertUnchecked(v) ==
    /\ At("insert") /\ Newest(v)
    /\ rows' = IF v \in DOMAIN rows THEN rows ELSE WithRow(rows, v, Pending(cycle.account))
    /\ NextEntry(v)
    /\ KeepButRows

\* Mutant: an insert that fails ends the loop over the entries, not the turn.
InsertEndsListing(v) ==
    /\ At("insert") /\ Newest(v)
    /\ IF v \in DOMAIN rows \/ AccountLeft THEN To("touch") /\ UNCHANGED rows
       ELSE rows' = WithRow(rows, v, Pending(cycle.account)) /\ NextEntry(v)
    /\ KeepButRows

\* In a transaction of its own: a row another task has stored by now, or an
\* account that is gone, breaks the turn, and the rest of the listing is lost.
Insert(v) ==
    /\ At("insert") /\ Newest(v)
    /\ IF v \in DOMAIN rows \/ AccountLeft THEN TurnEnds /\ UNCHANGED rows
       ELSE rows' = WithRow(rows, v, Pending(cycle.account)) /\ NextEntry(v)
    /\ KeepButRows

TouchLastCheck ==
    /\ At("touch")
    /\ IF AccountLeft THEN TurnEnds /\ UNCHANGED accounts
       ELSE accounts' = [accounts EXCEPT ![cycle.account].check = "fresh"] /\ Discovered
    /\ KeepButChecks

\* THROTTLE_SECONDS pass.
CheckAges(a) ==
    /\ ~Gone(a) /\ accounts[IdOf(a)].check = "fresh"
    /\ accounts' = [accounts EXCEPT ![IdOf(a)].check = "old"]
    /\ KeepButChecks /\ UNCHANGED cycle

(***************************************************************************)
(* download_pendings, in the same turn, with gates of its own.             *)
(***************************************************************************)
TurnCookieGate ==
    /\ At("cookies left")
    /\ To(IF Working = Nothing THEN "stop turn" ELSE "turn flag")
    /\ KeepCycleOnly

\* The monitor is stopped for everyone; the other accounts still get a turn.
TurnStopsForCookies ==
    /\ At("stop turn") /\ monitor' = FALSE /\ TurnEnds
    /\ KeepButFlag

TurnFlagGate ==
    /\ At("turn flag")
    /\ IF paused \/ ~available THEN TurnEnds ELSE To("pendings")
    /\ KeepCycleOnly

SelectPendings ==
    /\ At("pendings")
    /\ IF Gone(Turn) THEN TurnEnds
       ELSE LET waiting == {v \in RowsOf(IdOf(Turn)) : rows[v].status = "pending"}
            IN  cycle' = [cycle EXCEPT !.pc = "download", !.pending = waiting]
    /\ KeepCycleOnly

Settles(v, status) ==
    /\ rows' = [rows EXCEPT ![v].status = status]
    /\ cycle' = [cycle EXCEPT !.pc = "download", !.pending = @ \ {v}]

PendingsDone == At("download") /\ cycle.pending = {} /\ TurnEnds /\ KeepCycleOnly

\* One after the other, through the pacer and the semaphore; a failure is the
\* video's alone (VideoLifecycle models the outcomes).
Download(v) ==
    /\ At("download") /\ v \in cycle.pending
    /\ \E status \in {"done", "failed"} :
           Settles(v, IF cycle.engine = Nothing THEN "failed" ELSE status)
    /\ KeepButRows

\* No space left: first all downloads are paused, then the video has failed.
DiskFull(v) ==
    /\ At("download") /\ v \in cycle.pending /\ Spend("enospc")
    /\ paused' = TRUE
    /\ cycle' = [cycle EXCEPT !.pc = "enospc", !.entries = {v}]
    /\ KeepButCycle /\ UNCHANGED <<cookieVars, networkVars, low, diskCheck>>

DiskFullPersisted ==
    /\ At("enospc")
    /\ \E v \in cycle.entries : Settles(v, "failed")
    /\ KeepButRows

(***************************************************************************)
(* The commands, and the rest of the world.                                *)
(***************************************************************************)
KeepButAccounts == UNCHANGED <<cookieVars, guardVars, videoVars, refreshVars, monitor, cycle>>

AddAccount(a, mode) ==
    /\ Gone(a) /\ Spend("account")
    /\ accounts' = WithRow(accounts, NextId(accounts), NewAccount(a, mode))
    /\ owners' = owners \cup {<<NextId(accounts), a>>}
    /\ UNCHANGED removing /\ KeepButAccounts

SetPaused(a, value) ==
    /\ ~Gone(a) /\ Spend("account")
    /\ accounts' = [accounts EXCEPT ![IdOf(a)].paused = value]
    /\ UNCHANGED <<owners, removing>> /\ KeepButAccounts

\* Refused if it has videos ...
RemoveCounts(a) ==
    /\ ~Gone(a) /\ RowsOf(IdOf(a)) = {} /\ IdOf(a) \notin removing /\ Spend("account")
    /\ removing' = removing \cup {IdOf(a)}
    /\ UNCHANGED <<accounts, owners>> /\ KeepButAccounts

\* ... and, by the foreign key, if it has them by now.
RemoveDeletes(i) ==
    /\ i \in removing /\ removing' = removing \ {i}
    /\ accounts' = IF RowsOf(i) # {} THEN accounts
                   ELSE [k \in DOMAIN accounts \ {i} |-> accounts[k]]
    /\ UNCHANGED <<owners, spent>> /\ KeepButAccounts

\* `monitor start`, unless the daemon is degraded (Daemon has that gate), and
\* `monitor stop`: read and write apart, but writing what is there changes nothing.
SetMonitor(on) ==
    /\ monitor # on /\ Spend("monitor") /\ monitor' = on
    /\ UNCHANGED <<cookieVars, guardVars, accountVars, videoVars, refreshVars, cycle>>

KeepButVideos == UNCHANGED <<cookieVars, guardVars, accountVars, refreshVars, monitor, cycle>>

Publish(v) ==
    /\ v \notin published /\ \A w \in Videos : w < v => w \in published
    /\ published' = published \cup {v}
    /\ UNCHANGED <<rows, spent>> /\ KeepButVideos

\* A backfill stores the video first, under the id its author's account had
\* when the backfill began.
OtherInserts(v) ==
    /\ v \in published /\ v \notin DOMAIN rows /\ Spend("other")
    /\ \E i \in DOMAIN accounts :
           <<i, Author[v]>> \in owners /\ rows' = WithRow(rows, v, Pending(i))
    /\ UNCHANGED published /\ KeepButVideos

OnlyCookies == KeepAll
OnlyGuards == UNCHANGED <<cookieVars, monitorVars>>

ResumeCommand ==
    /\ ManualResume /\ Spend("resume")
    /\ UNCHANGED <<cookieVars, accountVars, videoVars, refreshVars, monitor, cycle>>

(***************************************************************************)
(* The system.                                                             *)
(***************************************************************************)
CycleSteps ==
    \/ CycleStarts \/ CookieGate \/ StopForCookies \/ FlagGate \/ SelectAccounts
    \/ TurnBegins \/ ListingReturns \/ ListingEmpty \/ ListingRefused \/ ListingFails
    \/ MarkReview \/ TouchLastCheck
    \/ TurnCookieGate \/ TurnStopsForCookies \/ TurnFlagGate \/ SelectPendings
    \/ \E v \in Videos : LookUp(v) \/ Insert(v) \/ Download(v)
    \/ PendingsDone \/ DiskFullPersisted

HeartbeatJob == EnsureBegins("heartbeat") \/ HeartbeatLaunches
CollectJob == EnsureBegins("collect") \/ CollectEnsured
ValidateJob ==
    \/ EnsureBegins("validate") \/ ValidateEnsured \/ (BatchReads /\ OnlyCookies)
    \/ (ReadBlob("validate") \/ Probe("validate") \/ WriteVerdict("validate")) /\ OnlyCookies
RefreshJob == EnsureBegins("refresh") \/ RefreshBegins \/ PageLoads \/ PageFails \/ ProfileWritten

CookieCommands ==
    \/ \E f \in Files : AddCookie(f)
    \/ \E i \in Ids : RemoveCookie(i) \/ TestCookie(i)
    \/ ReadBlob("test") \/ Probe("test") \/ WriteVerdict("test")

AccountCommands ==
    \/ \E a \in Accounts :
           \/ \E mode \in {"monitor", "history"} : AddAccount(a, mode)
           \/ \E value \in BOOLEAN : SetPaused(a, value)
           \/ RemoveCounts(a)
    \/ \E i \in removing : RemoveDeletes(i)

World ==
    \/ (ProbesGo \/ \E f \in Files : Expire(f)) /\ OnlyCookies
    \/ (NetworkChanges \/ DiskChanges) /\ OnlyGuards
    \/ \E v \in Videos : Publish(v) \/ OtherInserts(v) \/ DiskFull(v)

Next ==
    \/ HeartbeatJob \/ CollectJob \/ ValidateJob \/ RefreshJob
    \/ CycleSteps
    \/ (DiskJob \/ NetworkJob) /\ OnlyGuards
    \/ \E a \in Accounts : CheckAges(a) \/ ProfileAges(a)
    \/ CookieCommands /\ OnlyCookies
    \/ AccountCommands \/ ResumeCommand \/ \E on \in BOOLEAN : SetMonitor(on)
    \/ World

(***************************************************************************)
(* Jobs fire at their intervals and end, a cycle goes on (every call in it *)
(* has a deadline), and time passes.  A heartbeat that may launch does so  *)
(* in the end.  Nobody has to give a command or to publish a video.        *)
(***************************************************************************)
Fairness ==
    /\ WF_vars(HeartbeatJob) /\ WF_vars(CollectJob) /\ WF_vars(RefreshJob)
    /\ SF_vars(HeartbeatLaunches /\ cycle'.pc = "start")
    /\ WF_vars(CycleSteps)
    /\ WF_vars(DiskJob /\ OnlyGuards) /\ WF_vars(NetworkJob /\ OnlyGuards)
    /\ \A a \in Accounts : WF_vars(CheckAges(a)) /\ WF_vars(ProfileAges(a))

Spec == Init /\ [][Next]_vars /\ Fairness

Pcs == {"off", "start", "cookie", "stop", "flag", "select", "turn", "listing", "review", "look",
        "insert", "touch", "cookies left", "stop turn", "turn flag", "pendings", "download",
        "enospc"}
Cookie == [id : Ids \cup {NoId}, file : Files \cup {NoFile}]

TypeOK ==
    /\ GuardsTypeOK
    /\ DOMAIN stored \subseteq Ids /\ imported \subseteq Files /\ expired \subseteq imported
    /\ \A i \in DOMAIN stored : stored[i] \in [file : imported, state : States]
    /\ IsInjective(recent) /\ ToSet(recent) \subseteq DOMAIN stored
    /\ probes \in BOOLEAN /\ refused \subseteq Ids \X Files
    /\ engine \in Cookie /\ \A j \in Jobs : held[j] \in Cookie \cup {NotReading}
    /\ \A v \in Validators :
           /\ val[v].pc \in {"idle", "list", "read", "probe", "write"}
           /\ val[v].pc \in {"read", "probe", "write"} <=> val[v].todo # <<>>
           /\ val[v].pc = "write" <=> val[v].verdict # "none"
    /\ DOMAIN accounts \subseteq Nat \ {NoId} /\ owners \subseteq (Nat \ {NoId}) \X Accounts
    /\ \A i \in DOMAIN accounts :
           /\ accounts[i] \in [name : Accounts, mode : {"monitor", "history"}, paused : BOOLEAN,
                               review : BOOLEAN, check : {"never", "fresh", "old"}]
           /\ Named(accounts[i].name) = {i} /\ <<i, accounts[i].name>> \in owners
    /\ DOMAIN rows \subseteq published /\ published \subseteq Videos
    /\ \A v \in DOMAIN rows :
           rows[v] \in [account : DOMAIN accounts, status : {"pending", "done", "failed"}]
    /\ monitor \in BOOLEAN /\ cycle.pc \in Pcs
    /\ cycle.pc \in {"look", "insert"} => cycle.entries # {}
    /\ \A v \in cycle.pending : v \in DOMAIN rows /\ rows[v].status = "pending"
    /\ refresh.pc \in {"off", "page", "write"} /\ \A p \in refreshed : p[1] \in Nat \ {NoId}
    /\ removing \subseteq DOMAIN accounts
    /\ \A k \in Kinds : spent[k] <= Limit[k]


(***************************************************************************)
(* What the code does keep of it: a row is only invalid if a probe that    *)
(* was asked with the session the row holds got a definitive answer, never *)
(* for want of an answer, although the verdict is written to the row long  *)
(* after its session was read, the row may be gone by then and the two     *)
(* validators may be at it at once.  A row whose id was given out again    *)
(* may get the verdict on its predecessor.                                 *)
(***************************************************************************)
InvalidWasAnswered ==
    \A i \in DOMAIN stored :
        stored[i].state = "invalid" =>
            \/ <<i, stored[i].file>> \in refused
            \/ i \in reissued /\ \E p \in refused : p[1] = i

(***************************************************************************)
(* The engine follows the cookies without a restart (T-DEPLOY-24, -25):    *)
(* once a cookie remains the best, or none is left, the engine is the one  *)
(* of that cookie, or none, whichever jobs have rebuilt it from what they  *)
(* had read.  It is wrong about an id that was given out again.            *)
(***************************************************************************)
EngineFollows ==
    \A f \in Files \cup {NoFile} :
        <>[](Working.file = f) => <>[](engine.file = f \/ engine.id \in reissued)

(***************************************************************************)
(* "A NEW usable cookie row rebuilds it" (run.py:258): after ensure_engine *)
(* the engine is that of the cookie which was found.                       *)
(***************************************************************************)
EngineIsWorkingCookie ==
    [][\A j \in Jobs :
          held[j] # NotReading /\ held'[j] = NotReading => engine' = held[j]]_vars

(***************************************************************************)
(* What stands between that line and the code is the reuse of ids and      *)
(* nothing else: the comparison by id (run.py:268) leaves the engine of    *)
(* another session in place only if the id was given out twice, whatever   *)
(* happens to the rows between the jobs' reads and what they make of them. *)
(***************************************************************************)
EngineIsFoundCookie ==
    [][\A j \in Jobs :
          held[j] # NotReading /\ held'[j] = NotReading
              => engine' = held[j] \/ held[j].id \in reissued]_vars

(***************************************************************************)
(* last_check_at moves on a completed check only (monitor.py:144): all     *)
(* that the feed showed is stored by then, and the check was one of that   *)
(* account, even if a backfill stores an entry first, so that the turn     *)
(* breaks with the rest of the listing unseen, or the account is removed   *)
(* and added again meanwhile.  An account that was given the id of the one *)
(* that was listed takes its check for its own.                            *)
(***************************************************************************)
CompletedCheckStored ==
    [][\A i \in DOMAIN accounts \cap DOMAIN accounts' :
          accounts'[i].check = "fresh" /\ accounts[i].check # "fresh"
              => /\ cycle.listed \subseteq DOMAIN rows
                 /\ accounts[i].name = Turn \/ Shared(i)]_vars

\* Without the last disjunct, which the reuse of ids refutes.
ChecksAreOwn ==
    [][\A i \in DOMAIN accounts \cap DOMAIN accounts' :
          accounts'[i].check = "fresh" /\ accounts[i].check # "fresh"
              => accounts[i].name = Turn]_vars

(***************************************************************************)
(* A removal never takes an account away from its videos ("no silent       *)
(* cascade", accounts.py:151), though it counts them in one statement and  *)
(* deletes the account in another, and listings and backfills that read    *)
(* its id before store videos meanwhile.  Their videos go to the account   *)
(* of their author, or to one that was given its id.                       *)
(***************************************************************************)
NoOrphanVideos ==
    \A v \in DOMAIN rows :
        LET i == rows[v].account
        IN  i \in DOMAIN accounts /\ (accounts[i].name = Author[v] \/ Shared(i))

\* Without the last disjunct, which the reuse of ids refutes.
VideosAreOwn ==
    \A v \in DOMAIN rows : accounts[rows[v].account].name = Author[v]

(***************************************************************************)
(* Nothing is lost between a feed and the downloads: a video that stays    *)
(* within the window of an account that is monitored, under conditions     *)
(* that allow it, is tried in the end.  A turn that breaks, a listing that *)
(* fails, a row that someone else stored or an account that never loads    *)
(* only delay it (T-DATA-1, T-BACKFILL-1).  A video that was stored under  *)
(* an id that was given out again waits for that other account.            *)
(***************************************************************************)
Tended(v) ==
    LET a == Author[v]
        i == IdOf(a)
    IN  /\ ~Gone(a) /\ a \notin Broken /\ v \in Feed(a)
        /\ accounts[i].mode = "monitor" /\ ~accounts[i].paused /\ ~accounts[i].review
        /\ monitor /\ Working # Nothing /\ ~paused /\ available

Settled(v) ==
    v \in DOMAIN rows /\ (rows[v].status # "pending" \/ Shared(rows[v].account))

FeedSettles == \A v \in Videos : <>[]Tended(v) => <>Settled(v)

(***************************************************************************)
(* An account whose page never loads does not keep the others from being   *)
(* refreshed (maintenance.py:124), each in the row it has.                 *)
(***************************************************************************)
RefreshIsolated ==
    \A a \in Accounts \ Broken :
        <>[](~Gone(a) /\ ~accounts[IdOf(a)].paused /\ Working # Nothing /\ engine # Nothing)
            => []<>(~Gone(a) /\ <<IdOf(a), a>> \in refreshed)

(***************************************************************************)
(* The pause of the downloads follows the disk (8.2), whatever a download, *)
(* the operator, or a check that had read an old state has written.        *)
(***************************************************************************)
PauseFollowsDisk ==
    /\ <>[]low => []<>paused
    /\ <>[]~low => []<>~paused

(***************************************************************************)
(* A blip stops nothing (T-BOT-14): downloads wait for the network only    *)
(* while as many probes in a row as configured have failed.                *)
(***************************************************************************)
BlipHarmless == ~available => streak = Threshold
=============================================================================
